---- MODULE Spec2Model ----
(***************************************************************************)
(* A model of python-mongomodel: the field coercion pipeline (fields.py,   *)
(* utils.py), the documents and the update-query translator (model.py),    *)
(* the life cycle of Model instances against a collection, the assembly of  *)
(* a class's schema and the lazy collection handle (model.py).             *)
(*                                                                         *)
(* Python values are tagged records, one shape per Python type.  Texts are *)
(* sequences of one-character strings, so that parsing and formatting are  *)
(* computed.  A float is held as the number of its halves (h = 85 is       *)
(* 42.5), which keeps float() and int() apart.  Dates, identifiers and     *)
(* their text forms are miniatures: one digit for the day, one for the     *)
(* time of day, one for an identifier.                                     *)
(***************************************************************************)
EXTENDS Integers, Sequences, FiniteSets, TLC

VARIABLES
    fcall,      \* the last call of Field.to_mongo / Field.to_python and its outcome
    ucall,      \* the last call of Document.validate_update_query and its outcome
    docs,       \* the Model instances: _data, _changed, how each was last written
    store,      \* the collection: the documents the store holds
    nextId,     \* the next _id the store generates
    classes,    \* the document classes defined so far: bases, attributes, _meta.fields
    names,      \* the name attribute of each Field object that has one assigned
    threads,    \* the calls of Model.get_collection in progress: position and locals
    collection_connection,  \* _meta.collection_connection of each Model class
    connections, \* the module's _connections: database name -> client
    writer      \* the call of save/create/update/get in progress: position and locals

classVars == <<classes, names>>
threadVars == <<threads, collection_connection, connections>>

vars == <<fcall, ucall, docs, store, nextId, classes, names, threads,
          collection_connection, connections, writer>>

----------------------------------------------------------------------------
(* Python values *)

None == [t |-> "None"]
PyBool(b) == [t |-> "bool", b |-> b]
PyInt(i) == [t |-> "int", i |-> i]
PyFloat(h) == [t |-> "float", h |-> h]
PyStr(s) == [t |-> "str", s |-> s]
PyList(l) == [t |-> "list", l |-> l]
PySet(e) == [t |-> "set", e |-> e]
PyDict(m) == [t |-> "dict", m |-> m]
PyDateTime(day, tod, tz) == [t |-> "datetime", day |-> day, tod |-> tod, tz |-> tz]
PyDate(day) == [t |-> "date", day |-> day]
PyUUID(id) == [t |-> "uuid", id |-> id]
PyObjectId(id) == [t |-> "oid", id |-> id]

EmptyDict == PyDict(<<>>)
NoTz == 0

(* The outcome of a call: a returned value or a raised exception.  `field` *)
(* is FieldValidationError.field, "" when the exception carries none.      *)
Ok(v) == [k |-> "ok", v |-> v]
Raise(exc, msg, field) == [k |-> "raise", exc |-> exc, msg |-> msg, field |-> field]
IsOk(r) == r.k = "ok"

FVE == "FieldValidationError"

IsNumber(v) == v.t \in {"bool", "int", "float"}
Halves(v) == CASE v.t = "bool" -> (IF v.b THEN 2 ELSE 0)
               [] v.t = "int" -> 2 * v.i
               [] v.t = "float" -> v.h

(* a == b in Python: True == 1 == 1.0; anything else by structure. *)
PyEq(a, b) == IF IsNumber(a) /\ IsNumber(b) THEN Halves(a) = Halves(b) ELSE a = b

(* bool(v): the truth value Python gives v. *)
Truthy(v) == CASE v.t = "None" -> FALSE
               [] v.t = "bool" -> v.b
               [] v.t = "int" -> v.i # 0
               [] v.t = "float" -> v.h # 0
               [] v.t = "str" -> v.s # <<>>
               [] v.t = "list" -> v.l # <<>>
               [] v.t = "set" -> v.e # {}
               [] v.t = "dict" -> DOMAIN v.m # {}
               [] OTHER -> TRUE

----------------------------------------------------------------------------
(* Texts *)

Digits == <<"0", "1", "2", "3", "4", "5", "6", "7", "8", "9">>
IsDigit(c) == \E i \in 1..10 : Digits[i] = c
DigitVal(c) == (CHOOSE i \in 1..10 : Digits[i] = c) - 1
AllDigits(s) == \A i \in 1..Len(s) : IsDigit(s[i])

RECURSIVE NatToChars(_)
NatToChars(n) == IF n < 10 THEN <<Digits[n + 1]>>
                 ELSE NatToChars(n \div 10) \o <<Digits[(n % 10) + 1]>>
IntToChars(n) == IF n < 0 THEN <<"-">> \o NatToChars(0 - n) ELSE NatToChars(n)

RECURSIVE CharsToNat(_)
CharsToNat(s) == IF s = <<>> THEN 0
                 ELSE 10 * CharsToNat(SubSeq(s, 1, Len(s) - 1)) + DigitVal(s[Len(s)])

RECURSIVE LStrip(_)
LStrip(s) == IF s # <<>> /\ s[1] = " " THEN LStrip(Tail(s)) ELSE s
RECURSIVE RStrip(_)
RStrip(s) == IF s # <<>> /\ s[Len(s)] = " " THEN RStrip(SubSeq(s, 1, Len(s) - 1)) ELSE s
Strip(s) == RStrip(LStrip(s))

(* s.index(c): 0-based, -1 standing for the ValueError of a missing c. *)
Index(s, c) == IF \E i \in 1..Len(s) : s[i] = c
               THEN (CHOOSE i \in 1..Len(s) : s[i] = c /\ \A j \in 1..(i - 1) : s[j] # c) - 1
               ELSE 0 - 1
RIndex(s, c) == IF \E i \in 1..Len(s) : s[i] = c
                THEN (CHOOSE i \in 1..Len(s) : s[i] = c /\ \A j \in (i + 1)..Len(s) : s[j] # c) - 1
                ELSE 0 - 1

(* Truncation toward zero of a number of halves: int(42.5) = 42, int(-2.5) = -2. *)
TruncHalves(h) == IF h >= 0 THEN h \div 2 ELSE 0 - ((0 - h) \div 2)

(* float(text): optional sign, digits, optionally "." and one digit 0 or 5 *)
(* (the fractions a number of halves can hold); surrounding blanks ignored. *)
ParseFloat(s) ==
    LET t == Strip(s)
        neg == t # <<>> /\ t[1] = "-"
        body == IF neg THEN Tail(t) ELSE t
        dot == Index(body, ".")
        ip == IF dot < 0 THEN body ELSE SubSeq(body, 1, dot)
        fp == IF dot < 0 THEN <<>> ELSE SubSeq(body, dot + 2, Len(body))
        good == /\ ip # <<>>
                /\ AllDigits(ip)
                /\ fp \in {<<>>, <<"0">>, <<"5">>}
        mag == 2 * CharsToNat(ip) + (IF fp = <<"5">> THEN 1 ELSE 0)
    IN  IF good THEN Ok(PyFloat(IF neg THEN 0 - mag ELSE mag))
        ELSE Raise("ValueError", "could not convert string to float", "")

(* The text of a float: repr keeps one fraction digit. *)
FloatToChars(h) ==
    LET a == IF h < 0 THEN 0 - h ELSE h
    IN  (IF h < 0 THEN <<"-">> ELSE <<>>) \o NatToChars(a \div 2)
          \o <<".">> \o (IF a % 2 = 1 THEN <<"5">> ELSE <<"0">>)

----------------------------------------------------------------------------
(* Dates, identifiers and their text forms *)

(* datetime.isoformat() / date.isoformat(): day "T" time-of-day, and "+" *)
(* offset for an aware value.                                             *)
IsoDateTime(v) == <<Digits[v.day + 1], "T", Digits[v.tod + 1]>>
                    \o (IF v.tz = NoTz THEN <<>> ELSE <<"+", Digits[v.tz + 1]>>)
IsoDate(v) == <<Digits[v.day + 1]>>

(* dateutil.parser.parse(text): a lone day, day "T" time, or that with an *)
(* offset; anything else is a ValueError.                                 *)
ParseDateTime(s) ==
    CASE Len(s) = 1 /\ AllDigits(s) -> Ok(PyDateTime(DigitVal(s[1]), 0, NoTz))
      [] Len(s) = 3 /\ IsDigit(s[1]) /\ s[2] = "T" /\ IsDigit(s[3])
            -> Ok(PyDateTime(DigitVal(s[1]), DigitVal(s[3]), NoTz))
      [] Len(s) = 5 /\ IsDigit(s[1]) /\ s[2] = "T" /\ IsDigit(s[3]) /\ s[4] = "+"
                    /\ IsDigit(s[5]) /\ s[5] # "0"
            -> Ok(PyDateTime(DigitVal(s[1]), DigitVal(s[3]), DigitVal(s[5])))
      [] OTHER -> Raise("ValueError", "unknown string format", "")

(* The text forms of a UUID: hex "u"d, str "u-"d, urn "Uu-"d ("U" stands *)
(* for the urn:uuid: prefix).                                            *)
UUIDHex(v) == <<"u", Digits[v.id + 1]>>
UUIDStr(v) == <<"u", "-", Digits[v.id + 1]>>
UUIDUrn(v) == <<"U">> \o UUIDStr(v)

(* uuid.UUID(text): drops the urn prefix and the hyphens, then wants hex. *)
ParseUUID(s) ==
    LET a == IF s # <<>> /\ s[1] = "U" THEN Tail(s) ELSE s
        b == SelectSeq(a, LAMBDA c : c # "-")
    IN  IF Len(b) = 2 /\ b[1] = "u" /\ IsDigit(b[2]) THEN Ok(PyUUID(DigitVal(b[2])))
        ELSE Raise("ValueError", "badly formed hexadecimal UUID string", "")

(* str(ObjectId) and ObjectId(text). *)
ObjectIdStr(v) == <<"o", Digits[v.id + 1]>>
ParseObjectId(s) ==
    IF Len(s) = 2 /\ s[1] = "o" /\ IsDigit(s[2]) THEN Ok(PyObjectId(DigitVal(s[2])))
    ELSE Raise("InvalidId", "not a valid ObjectId", "")

(* An enumeration of a finite set, the order Python iterates it in. *)
SeqOfSet(S) == CHOOSE q \in [1..Cardinality(S) -> S] : \A x \in S : \E i \in DOMAIN q : q[i] = x

RECURSIVE JoinSeqs(_, _)
JoinSeqs(qs, sep) == IF qs = <<>> THEN <<>>
                     ELSE IF Len(qs) = 1 THEN qs[1]
                     ELSE qs[1] \o sep \o JoinSeqs(Tail(qs), sep)

(* repr(v), the text unicode() gives a value that is no text itself. *)
RECURSIVE Repr(_)
Repr(v) ==
    CASE v.t = "None" -> <<"N", "o", "n", "e">>
      [] v.t = "bool" -> (IF v.b THEN <<"T", "r", "u", "e">> ELSE <<"F", "a", "l", "s", "e">>)
      [] v.t = "int" -> IntToChars(v.i)
      [] v.t = "float" -> FloatToChars(v.h)
      [] v.t = "str" -> <<"'">> \o v.s \o <<"'">>
      [] v.t = "list" -> <<"[">> \o JoinSeqs([i \in DOMAIN v.l |-> Repr(v.l[i])], <<",", " ">>) \o <<"]">>
      [] v.t = "set" -> LET q == SeqOfSet(v.e)
                        IN <<"s", "e", "t", "(", "[">>
                             \o JoinSeqs([i \in DOMAIN q |-> Repr(q[i])], <<",", " ">>) \o <<"]", ")">>
      [] v.t = "dict" -> LET q == SeqOfSet(DOMAIN v.m)
                         IN <<"{">> \o JoinSeqs([i \in DOMAIN q |->
                                       <<"'", q[i], "'", ":", " ">> \o Repr(v.m[q[i]])], <<",", " ">>) \o <<"}">>
      [] v.t = "datetime" -> <<Digits[v.day + 1], " ", Digits[v.tod + 1]>>
                               \o (IF v.tz = NoTz THEN <<>> ELSE <<"+", Digits[v.tz + 1]>>)
      [] v.t = "date" -> IsoDate(v)
      [] v.t = "uuid" -> UUIDStr(v)
      [] v.t = "oid" -> ObjectIdStr(v)

----------------------------------------------------------------------------
(* The type constructors used as pipeline steps: fn(value) *)

TypeError == Raise("TypeError", "wrong type", "")

PyUnicode(v) == IF v.t = "str" THEN Ok(v) ELSE Ok(PyStr(Repr(v)))

PyFloatOf(v) == CASE v.t = "float" -> Ok(v)
                  [] v.t \in {"int", "bool"} -> Ok(PyFloat(Halves(v)))
                  [] v.t = "str" -> ParseFloat(v.s)
                  [] OTHER -> TypeError

PyIntOf(v) == CASE v.t = "int" -> Ok(v)
                [] v.t \in {"float", "bool"} -> Ok(PyInt(TruncHalves(Halves(v))))
                [] v.t = "str" -> (LET t == Strip(v.s)
                                       neg == t # <<>> /\ t[1] = "-"
                                       body == IF neg THEN Tail(t) ELSE t
                                   IN IF body # <<>> /\ AllDigits(body)
                                      THEN Ok(PyInt(IF neg THEN 0 - CharsToNat(body) ELSE CharsToNat(body)))
                                      ELSE Raise("ValueError", "invalid literal for int()", ""))
                [] OTHER -> TypeError

PyBoolOf(v) == Ok(PyBool(Truthy(v)))

Hashable(v) == v.t \notin {"list", "set", "dict"}
Range(q) == {q[i] : i \in DOMAIN q}

(* dict(v): a mapping, or an iterable of key/value pairs. *)
PyDictOf(v) ==
    CASE v.t = "dict" -> Ok(v)
      [] v.t = "str" /\ v.s = <<>> -> Ok(EmptyDict)
      [] v.t = "set" /\ v.e = {} -> Ok(EmptyDict)
      [] v.t = "list" /\ \A i \in DOMAIN v.l :
                            v.l[i].t = "list" /\ Len(v.l[i].l) = 2 /\ v.l[i].l[1].t = "str"
                                /\ Len(v.l[i].l[1].s) = 1
            -> Ok(PyDict([key \in {v.l[i].l[1].s[1] : i \in DOMAIN v.l} |->
                     LET last == CHOOSE i \in DOMAIN v.l :
                                    /\ v.l[i].l[1].s[1] = key
                                    /\ \A j \in DOMAIN v.l : v.l[j].l[1].s[1] = key => j <= i
                     IN v.l[last].l[2]]))
      [] OTHER -> TypeError

(* The elements Python iterates over, or a TypeError for a non-iterable. *)
IsIterable(v) == v.t \in {"list", "set", "dict", "str"}
Elements(v) == CASE v.t = "list" -> v.l
                 [] v.t = "set" -> SeqOfSet(v.e)
                 [] v.t = "dict" -> LET q == SeqOfSet(DOMAIN v.m) IN [i \in DOMAIN q |-> PyStr(<<q[i]>>)]
                 [] v.t = "str" -> [i \in DOMAIN v.s |-> PyStr(<<v.s[i]>>)]

PySetOf(v) == IF ~IsIterable(v) THEN TypeError
              ELSE IF \E x \in Range(Elements(v)) : ~Hashable(x)
                   THEN Raise("TypeError", "unhashable type", "")
              ELSE Ok(PySet(Range(Elements(v))))

PyListOf(v) == IF IsIterable(v) THEN Ok(PyList(Elements(v))) ELSE TypeError

----------------------------------------------------------------------------
(* Fields (fields.py).  A document class is its _meta.fields: a sequence *)
(* of fields with their names set, in the order the class iterates them. *)

NoElem == [cls |-> "none"]

(* Field.__init__ with its defaults; UUIDField passes `unique` (True) on *)
(* as the first positional argument of Field.__init__, which is default. *)
Field(cls) ==
    [cls |-> cls, name |-> "", required |-> TRUE, auto |-> FALSE,
     default |-> IF cls = "UUIDField" THEN PyBool(TRUE) ELSE None,
     to_mongo |-> <<>>, to_python |-> <<>>, choices |-> <<>>, timezone |-> NoTz,
     format |-> CASE cls = "TimestampField" -> "int" [] cls = "UUIDField" -> "hex" [] OTHER -> "",
     field |-> NoElem, document_class |-> <<>>]

ListFieldOf(cls, elem) == [Field(cls) EXCEPT !.field = elem]
EmbeddedDocumentField(schema) == [Field("EmbeddedDocumentField") EXCEPT !.document_class = schema]
Named(f, name) == [f EXCEPT !.name = name]
Optional(f) == [f EXCEPT !.required = FALSE]

IsTextField(f) == f.cls \in {"TextField", "EmailField", "URLField"}
IsListField(f) == f.cls \in {"ListField", "SetField"}
IsEmbedded(f) == f.cls = "EmbeddedDocumentField"

(* FieldValidationError(message, instance): the default message names the *)
(* class, and the field name, when there is one, is put in front.         *)
FieldValidationError(message, instance) ==
    LET m == IF message = "" THEN "Not a valid " \o instance.cls ELSE message
    IN  Raise(FVE, IF instance.name # "" THEN "[" \o instance.name \o "] " \o m ELSE m,
              instance.name)

AttributeError(what) == Raise("AttributeError", what, "")

----------------------------------------------------------------------------
(* The steps of utils.py: fn(value, instance) *)

validate_choices(value, instance) ==
    IF instance.choices # <<>>
         /\ ~\E i \in DOMAIN instance.choices : PyEq(instance.choices[i][1], value)
    THEN FieldValidationError("Value not in field choices", instance)
    ELSE Ok(value)

load_choice(value, instance) ==
    LET c == instance.choices
    IN  IF c # <<>> /\ \E i \in DOMAIN c : PyEq(c[i][2], value)
        THEN Ok(c[CHOOSE i \in DOMAIN c : PyEq(c[i][2], value)
                        /\ \A j \in 1..(i - 1) : ~PyEq(c[j][2], value)][1])
        ELSE Ok(value)

validate_text(value, instance) ==
    IF value.t # "str" THEN AttributeError("strip")
    ELSE IF instance.required /\ Strip(value.s) = <<>>
         THEN FieldValidationError("Value can't be empty", instance)
         ELSE Ok(value)

(* validate_email with its first bound moved to ixat > 0. *)
validate_email_at_first(value, instance) ==
    IF value.t # "str" THEN AttributeError("index")
    ELSE LET ixat == Index(value.s, "@")
             ixdot == RIndex(value.s, ".")
         IN  IF ixat < 0 \/ ixdot < 0 THEN Raise("ValueError", "substring not found", "")
             ELSE IF ~(ixat > 0 /\ ixdot > ixat + 2 /\ ixdot + 2 < Len(value.s))
                  THEN FieldValidationError("", instance)
                  ELSE Ok(value)

validate_email(value, instance) ==
    IF value.t # "str" THEN AttributeError("index")
    ELSE LET ixat == Index(value.s, "@")
             ixdot == RIndex(value.s, ".")
         IN  IF ixat < 0 \/ ixdot < 0 THEN Raise("ValueError", "substring not found", "")
             ELSE IF ~(ixat > 1 /\ ixdot > ixat + 2 /\ ixdot + 2 < Len(value.s))
                  THEN FieldValidationError("", instance)
                  ELSE Ok(value)

clean_bool(value, instance) ==
    CASE value = PyStr(<<"o", "n">>) -> Ok(PyBool(TRUE))
      [] value = PyStr(<<"o", "f", "f">>) -> Ok(PyBool(FALSE))
      [] OTHER -> Ok(value)

(* datetime is a subclass of date: datetime.combine keeps the day only. *)
load_datetime(value, instance) ==
    CASE value.t = "str" -> ParseDateTime(value.s)
      [] value.t \in {"date", "datetime"} -> Ok(PyDateTime(value.day, 0, NoTz))
      [] OTHER -> Ok(value)

validate_timezone(value, instance) ==
    IF instance.timezone = NoTz THEN Ok(value)
    ELSE IF value.t # "datetime" THEN AttributeError("tzinfo")
    ELSE IF value.tz = NoTz THEN FieldValidationError("", instance)
    ELSE Ok(value)

set_timezone(value, instance) ==
    IF instance.timezone = NoTz THEN Ok(value)
    ELSE IF value.t \notin {"datetime"} THEN Raise("TypeError", "replace", "")
    ELSE Ok([value EXCEPT !.tz = instance.timezone])

isodate(value, instance) ==
    CASE value.t = "datetime" -> Ok(PyStr(IsoDateTime(value)))
      [] value.t = "date" -> Ok(PyStr(IsoDate(value)))
      [] OTHER -> AttributeError("isoformat")

load_date(value, instance) ==
    CASE value.t = "str" -> (LET r == ParseDateTime(value.s)
                             IN IF IsOk(r) THEN Ok(PyDate(r.v.day)) ELSE r)
      [] value.t = "datetime" -> Ok(PyDate(value.day))
      [] OTHER -> Ok(value)

(* datetime.fromtimestamp(number): ten times of day to a day. *)
timestamp_to_datetime(value, instance) ==
    IF ~IsNumber(value) THEN TypeError
    ELSE LET n == IF Halves(value) >= 0 THEN Halves(value) \div 2
                  ELSE 0 - ((1 - Halves(value)) \div 2)
         IN  IF n < 0 \/ n > 99 THEN Raise("ValueError", "timestamp out of range", "")
             ELSE Ok(PyDateTime(n \div 10, n % 10, NoTz))

format_uuid(value, instance) ==
    IF instance.format = "str" THEN Ok(PyStr(IF value.t = "str" THEN value.s ELSE Repr(value)))
    ELSE IF value.t # "uuid" THEN AttributeError(instance.format)
    ELSE CASE instance.format = "hex" -> Ok(PyStr(UUIDHex(value)))
           [] instance.format = "int" -> Ok(PyInt(value.id))
           [] instance.format = "urn" -> Ok(PyStr(UUIDUrn(value)))

load_uuid(value, instance) ==
    CASE value.t = "str" -> ParseUUID(value.s)
      [] value.t \in {"int", "bool"} ->
            (IF Halves(value) \div 2 \in 0..9 THEN Ok(PyUUID(Halves(value) \div 2))
             ELSE Raise("ValueError", "int is out of range", ""))
      [] OTHER -> TypeError

load_objectid(value, instance) ==
    IF value.t = "str" THEN ParseObjectId(value.s) ELSE Ok(value)

(* JSONField's step calls utils.encode_json; utils defines json_encode. *)
json_lambda(value, instance) == AttributeError("'module' object has no attribute 'encode_json'")

(* Steps a caller supplies (to_mongo=[...]): the validator of model.py's *)
(* comment, which rejects what is no natural number, and a transform.    *)
validate_gt_zero(value, instance) ==
    IF IsNumber(value) /\ Halves(value) < 0
    THEN FieldValidationError("Value must be a natural number", instance)
    ELSE Ok(value)

double(value, instance) ==
    CASE value.t = "int" -> Ok(PyInt(2 * value.i))
      [] value.t = "float" -> Ok(PyFloat(2 * value.h))
      [] value.t = "bool" -> Ok(PyInt(Halves(value)))
      [] value.t = "str" -> Ok(PyStr(value.s \o value.s))
      [] value.t = "list" -> Ok(PyList(value.l \o value.l))
      [] OTHER -> Raise("TypeError", "unsupported operand type(s) for *", "")

----------------------------------------------------------------------------
(* The coercion pipeline (fields.py) *)

RECURSIVE to_mongo(_, _, _)
RECURSIVE to_python(_, _, _)

(* The first exception of a sequence of outcomes, or Ok of the values. *)
FirstRaise(rs) == rs[CHOOSE i \in DOMAIN rs : ~IsOk(rs[i]) /\ \A j \in 1..(i - 1) : IsOk(rs[j])]
AllOk(rs) == \A i \in DOMAIN rs : IsOk(rs[i])

(* A list comprehension: the list of the values, or the first exception. *)
ListOf(rs) == IF AllOk(rs) THEN Ok(PyList([i \in DOMAIN rs |-> rs[i].v])) ELSE FirstRaise(rs)

EachToMongo(field, e) == [i \in DOMAIN e |-> to_mongo(field, e[i], TRUE)]
EachToPython(field, e) == [i \in DOMAIN e |-> to_python(field, e[i], TRUE)]

list_to_mongo(value, instance) ==
    IF ~IsIterable(value) THEN TypeError
    ELSE ListOf(EachToMongo(instance.field, Elements(value)))

list_to_python(value, instance) ==
    IF ~IsIterable(value) THEN TypeError
    ELSE ListOf(EachToPython(instance.field, Elements(value)))

(* type(fn) == type: the step is a type, called with the value alone. *)
IsType(fn) == fn \in {"unicode", "float", "int", "bool", "dict", "set", "list"}

CallType(fn, value) ==
    CASE fn = "unicode" -> PyUnicode(value)
      [] fn = "float" -> PyFloatOf(value)
      [] fn = "int" -> PyIntOf(value)
      [] fn = "bool" -> PyBoolOf(value)
      [] fn = "dict" -> PyDictOf(value)
      [] fn = "set" -> PySetOf(value)
      [] fn = "list" -> PyListOf(value)

CallFunction(fn, value, instance) ==
    CASE fn = "load_choice" -> load_choice(value, instance)
      [] fn = "validate_choices" -> validate_choices(value, instance)
      [] fn = "validate_text" -> validate_text(value, instance)
      [] fn = "validate_email" -> validate_email(value, instance)
      [] fn = "clean_bool" -> clean_bool(value, instance)
      [] fn = "json_lambda" -> json_lambda(value, instance)
      [] fn = "load_datetime" -> load_datetime(value, instance)
      [] fn = "validate_timezone" -> validate_timezone(value, instance)
      [] fn = "set_timezone" -> set_timezone(value, instance)
      [] fn = "isodate" -> isodate(value, instance)
      [] fn = "load_date" -> load_date(value, instance)
      [] fn = "timestamp_to_datetime" -> timestamp_to_datetime(value, instance)
      [] fn = "format_uuid" -> format_uuid(value, instance)
      [] fn = "load_uuid" -> load_uuid(value, instance)
      [] fn = "load_objectid" -> load_objectid(value, instance)
      [] fn = "list_to_mongo" -> list_to_mongo(value, instance)
      [] fn = "list_to_python" -> list_to_python(value, instance)
      [] fn = "validate_gt_zero" -> validate_gt_zero(value, instance)
      [] fn = "double" -> double(value, instance)

(* The loop of Field._process: the steps in order, stopping at the first *)
(* exception.                                                            *)
RECURSIVE RunSteps(_, _, _)
RunRest(self, r, args) == IF IsOk(r) THEN RunSteps(self, r.v, args) ELSE r
RunSteps(self, value, args) ==
    IF args = <<>> THEN Ok(value)
    ELSE RunRest(self,
                 IF IsType(Head(args)) THEN CallType(Head(args), value)
                 ELSE CallFunction(Head(args), value, self),
                 Tail(args))

(* The except clauses of Field._process: a ValidationError is raised *)
(* again as it is, any other exception becomes ValidationError(self). *)
Reraise(self, r) ==
    IF IsOk(r) THEN r
    ELSE IF r.exc = FVE THEN r
    ELSE FieldValidationError("", self)

(* Field._process *)
Field_process(self, value, args) == Reraise(self, RunSteps(self, value, args))

(* Field.to_mongo as it would be without kwargs.get('custom', True): the *)
(* caller-supplied steps appended whatever the flag.                     *)
Field_to_mongo_custom_always(self, value, args, custom) ==
    IF value = None
    THEN IF self.cls = "BooleanField" THEN Ok(PyBool(FALSE))
         ELSE IF self.required /\ ~self.auto
              THEN FieldValidationError("Value can't be none if required", self)
              ELSE Ok(None)
    ELSE IF (IsTextField(self) \/ self.cls = "ObjectIdField") /\ ~Truthy(value) /\ ~self.required
         THEN Ok(None)
         ELSE Field_process(self, value, args \o self.to_mongo)

(* Field.to_mongo *)
Field_to_mongo(self, value, args, custom) ==
    IF value = None
    THEN IF self.cls = "BooleanField" THEN Ok(PyBool(FALSE))
         ELSE IF self.required /\ ~self.auto
              THEN FieldValidationError("Value can't be none if required", self)
              ELSE Ok(None)
    ELSE IF (IsTextField(self) \/ self.cls = "ObjectIdField") /\ ~Truthy(value) /\ ~self.required
         THEN Ok(None)
         ELSE Field_process(self, value, IF custom THEN args \o self.to_mongo ELSE args)

(* Field.to_python *)
Field_to_python(self, value, args, custom) ==
    IF value = None THEN Ok(None)
    ELSE IF (IsTextField(self) \/ self.cls = "ObjectIdField") /\ ~Truthy(value) THEN Ok(None)
    ELSE Field_process(self, value, IF custom THEN args \o self.to_python ELSE args)

(* The built-in steps each class passes up to Field.to_mongo, in the *)
(* order they reach it through the super() calls.                    *)
ToMongoSteps(self) ==
    CASE self.cls = "TextField" -> <<"unicode", "validate_text">>
      [] self.cls = "EmailField" -> <<"unicode", "validate_text", "validate_email">>
      [] self.cls = "BooleanField" -> <<"clean_bool", "bool">>
      [] self.cls = "IntegerField" -> <<"load_choice", "validate_choices", "float", "int">>
      [] self.cls = "FloatField" -> <<"float">>
      [] self.cls = "JSONField" -> <<"json_lambda">>
      [] self.cls = "DictField" -> <<"dict">>
      [] self.cls = "DateTimeField" -> <<"load_datetime", "validate_timezone", "set_timezone", "isodate">>
      [] self.cls = "DateField" -> <<"load_date", "isodate">>
      [] self.cls = "UUIDField" -> <<"format_uuid">>
      [] self.cls = "ObjectIdField" -> <<"load_objectid">>
      [] self.cls = "ListField" -> <<"list_to_mongo">>
      [] self.cls = "SetField" -> <<"list_to_mongo", "set", "list">>
      [] OTHER -> <<>>

ToPythonSteps(self) ==
    CASE self.cls = "BooleanField" -> <<"bool">>
      [] self.cls = "IntegerField" -> <<"validate_choices", "float", "int">>
      [] self.cls = "FloatField" -> <<"float">>
      [] self.cls = "DateTimeField" -> <<"load_datetime">>
      [] self.cls = "DateField" -> <<"load_date">>
      [] self.cls = "TimestampField" -> <<"timestamp_to_datetime">>
      [] self.cls = "UUIDField" -> <<"load_uuid">>
      [] self.cls = "ObjectIdField" -> <<"load_objectid">>
      [] self.cls = "ListField" -> <<"list_to_python">>
      [] self.cls = "SetField" -> <<"list_to_python", "set">>
      [] OTHER -> <<>>

(* TimestampField.to_mongo names self.load_timestamp among the arguments *)
(* of the super() call; the class has no such attribute (load_timestamp  *)
(* is a function of utils), so the call raises before Field.to_mongo.    *)
TimestampField_to_mongo(self, value, custom) ==
    AttributeError("'TimestampField' object has no attribute 'load_timestamp'")

(* Document.__init__: the defaults, then each keyword argument set; a   *)
(* keyword that names no field becomes a plain attribute.              *)
FieldNames(schema) == {schema[i].name : i \in DOMAIN schema}
FieldOf(schema, name) == schema[CHOOSE i \in DOMAIN schema : schema[i].name = name]

Document_init(schema, kwargs) ==
    [n \in FieldNames(schema) |-> IF n \in DOMAIN kwargs THEN kwargs[n] ELSE FieldOf(schema, n).default]

(* The document of the converted fields, or the first exception; a None *)
(* is left out when drop is set.                                        *)
DocOf(schema, rs, drop) ==
    IF ~AllOk(rs) THEN FirstRaise(rs)
    ELSE Ok(PyDict([n \in {schema[i].name : i \in {j \in DOMAIN schema : ~(rs[j].v = None /\ drop)}}
                      |-> rs[CHOOSE i \in DOMAIN schema : schema[i].name = n].v]))

(* Document.to_mongo(drop_none) over _data. *)
Document_to_mongo(schema, data, drop_none) ==
    DocOf(schema, [i \in DOMAIN schema |-> to_mongo(schema[i], data[schema[i].name], TRUE)], drop_none)

(* Document.to_python() over _data. *)
Document_to_python(schema, data) ==
    DocOf(schema, [i \in DOMAIN schema |-> to_python(schema[i], data[schema[i].name], TRUE)], FALSE)

(* EmbeddedDocumentField.to_mongo *)
EmbeddedDocumentField_to_mongo(self, value) ==
    IF value = None
    THEN IF self.required THEN FieldValidationError("Value can't be none if required", self)
         ELSE Ok(None)
    ELSE IF value # EmptyDict
         THEN IF value.t # "dict" THEN Raise("TypeError", "argument after ** must be a mapping", "")
              ELSE Document_to_mongo(self.document_class, Document_init(self.document_class, value.m), TRUE)
         ELSE Ok(value)

(* EmbeddedDocumentField.to_python *)
EmbeddedDocumentField_to_python(self, value) ==
    IF value = None THEN Ok(None)
    ELSE IF value # EmptyDict
         THEN IF value.t # "dict" THEN Raise("TypeError", "argument after ** must be a mapping", "")
              ELSE Document_to_python(self.document_class, Document_init(self.document_class, value.m))
         ELSE Ok(value)

(* field.to_mongo(value, custom=...): the method the field's class has. *)
to_mongo(self, value, custom) ==
    CASE self.cls = "TimestampField" -> TimestampField_to_mongo(self, value, custom)
      [] self.cls = "EmbeddedDocumentField" -> EmbeddedDocumentField_to_mongo(self, value)
      [] OTHER -> Field_to_mongo(self, value, ToMongoSteps(self), custom)

(* field.to_python(value, custom=...) *)
to_python(self, value, custom) ==
    CASE self.cls = "EmbeddedDocumentField" -> EmbeddedDocumentField_to_python(self, value)
      [] OTHER -> Field_to_python(self, value, ToPythonSteps(self), custom)

----------------------------------------------------------------------------
(* The fields and the values the calls are made with *)

Chars(str) == [i \in 1..Len(str) |-> SubSeq(str, i, i)]

(* tests.py: class Doc(model.Document): field = fields.IntegerField(default=1) *)
DocSchema == <<Named([Field("IntegerField") EXCEPT !.default = PyInt(1)], "field")>>

ScalarClasses ==
    {"TextField", "EmailField", "BooleanField", "IntegerField", "FloatField", "JSONField",
     "DictField", "DateTimeField", "DateField", "TimestampField", "UUIDField", "ObjectIdField"}

Choices12 == <<<<PyInt(1), PyStr(<<"o", "n", "e">>)>>, <<PyInt(2), PyStr(<<"t", "w", "o">>)>>>>

ConfiguredFields ==
    {[Field("IntegerField") EXCEPT !.to_mongo = <<"validate_gt_zero">>],
     [Field("IntegerField") EXCEPT !.to_mongo = <<"double">>, !.to_python = <<"double">>],
     [Field("TextField") EXCEPT !.to_mongo = <<"double">>],
     [Field("IntegerField") EXCEPT !.choices = Choices12],
     [Field("DateTimeField") EXCEPT !.timezone = 1],
     [Field("UUIDField") EXCEPT !.format = "int"],
     [Field("UUIDField") EXCEPT !.format = "urn"],
     [Field("UUIDField") EXCEPT !.format = "str"],
     [Field("TimestampField") EXCEPT !.format = "float"],
     ListFieldOf("ListField", Field("IntegerField")),
     ListFieldOf("ListField", Field("TextField")),
     ListFieldOf("SetField", Field("IntegerField")),
     ListFieldOf("ListField", EmbeddedDocumentField(DocSchema)),
     ListFieldOf("SetField", EmbeddedDocumentField(DocSchema)),
     EmbeddedDocumentField(DocSchema)}

FieldConfigs ==
    {[f EXCEPT !.required = r, !.auto = a] :
        f \in {Field(cls) : cls \in ScalarClasses} \cup ConfiguredFields, r \in BOOLEAN, a \in BOOLEAN}

(* Texts around each bound of validate_email: the place of the @, the *)
(* distance of the last dot from it, the characters after the dot.    *)
EmailTexts ==
    {Chars("@bar.com"), Chars("fo@bar.com"), Chars("foo@b.com"), Chars("foo@ba.com"),
     Chars("foo@bar.c"), Chars("foo@bar.co"), Chars("f.oo@bar"), Chars("foo.bar"), Chars("foobar"),
     Chars("fo@.bar.co")}

TestTexts ==
    {<<>>, <<" ">>, <<"4", "2">>, <<"-", "3">>, <<"4", ".", "5">>, <<"x", "x">>, <<"o", "n">>,
     <<"o", "f", "f">>, <<"3">>, <<"3", "T", "4">>, <<"3", "T", "4", "+", "1">>,
     <<"u", "3">>, <<"u", "-", "3">>, <<"U", "u", "-", "3">>, <<"o", "7">>,
     <<"o", "n", "e">>, <<"f", "o", "o", "@", "b", "a", "r", ".", "c", "o", "m">>,
     <<"f", "o", "o", "@", "b", "a", "r">>, <<"f", "@", "b", "a", "r", ".", "c", "o", "m">>}
      \cup EmailTexts

TestValues ==
    {None, PyBool(TRUE), PyBool(FALSE), PyInt(0 - 3), PyInt(0), PyInt(1), PyInt(42),
     PyFloat(85), PyFloat(0),
     EmptyDict, PyDict([field |-> PyStr(<<"4", "2">>)]), PyDict([field |-> PyInt(42)]),
     PyDict([field |-> PyStr(<<"x", "x">>)]), PyDict([xxx |-> PyInt(23)]),
     PyList(<<>>), PyList(<<PyInt(1), PyStr(<<"2">>)>>), PyList(<<PyInt(2), PyInt(2), PyInt(1)>>),
     PyList(<<PyStr(<<"x", "x">>)>>), PyList(<<None>>), PyList(<<PyDict([field |-> PyInt(42)])>>),
     PySet({PyInt(1), PyInt(2)}),
     PyDateTime(3, 4, NoTz), PyDateTime(3, 0, NoTz), PyDateTime(3, 4, 1), PyDateTime(3, 4, 2),
     PyDate(3), PyUUID(3), PyObjectId(7)}
      \cup {PyStr(x) : x \in TestTexts}

----------------------------------------------------------------------------
(* The state machine of the field calls.  fcall holds the last call: the  *)
(* method, the field, the argument and the outcome; `chain` counts the    *)
(* calls made on the outcome of the one before (to_mongo, then to_python  *)
(* of the wire value, then to_mongo of the logical value), `orig` and     *)
(* `wire` being the first argument and the first wire value.              *)

NoCall == [op |-> "none", chain |-> 0]

(* No call of a Model method in progress, and no instance held. *)
NoWriter ==
    [op |-> "none", pc |-> "done", held |-> <<>>, args |-> <<>>, data |-> <<>>,
     calls |-> <<>>, error |-> [t |-> "None"]]

(* The Model classes with a database: Meta.database of each, and the *)
(* collection ModelMeta.__new__ derives from the name of the class.   *)
ModelClasses == {"Person", "Log"}
MetaDatabase(cls) == IF cls = "Person" THEN "main" ELSE "audit"
MetaCollection(cls) == IF cls = "Person" THEN "persons" ELSE "logs"

(* meta.collection_connection = None, as ModelMeta.__new__ leaves it. *)
NoConnection == [t |-> "None"]

Init ==
    /\ fcall = NoCall
    /\ ucall = NoCall
    /\ docs = <<>>
    /\ store = <<>>
    /\ nextId = 1
    /\ classes = <<>>
    /\ names = <<>>
    /\ threads = <<>>
    /\ collection_connection = [cls \in ModelClasses |-> NoConnection]
    /\ connections = <<>>
    /\ writer = NoWriter

ToMongo ==
    /\ fcall.op = "none"
    /\ \E f \in FieldConfigs, v \in TestValues :
           /\ fcall' = [op |-> "to_mongo", chain |-> 0, field |-> f, arg |-> v,
                        res |-> to_mongo(f, v, TRUE), orig |-> v, wire |-> None]
           /\ UNCHANGED <<ucall, docs, store, nextId, classVars, threadVars, writer>>

ToPython ==
    /\ fcall.op = "none"
    /\ \E f \in FieldConfigs, v \in TestValues :
           /\ fcall' = [op |-> "to_python", chain |-> 0, field |-> f, arg |-> v,
                        res |-> to_python(f, v, TRUE), orig |-> v, wire |-> None]
           /\ UNCHANGED <<ucall, docs, store, nextId, classVars, threadVars, writer>>

(* to_python of the wire value the last to_mongo returned. *)
ThenToPython ==
    /\ fcall.op = "to_mongo" /\ fcall.chain = 0 /\ IsOk(fcall.res)
    /\ fcall' = [op |-> "to_python", chain |-> 1, field |-> fcall.field, arg |-> fcall.res.v,
                 res |-> to_python(fcall.field, fcall.res.v, TRUE),
                 orig |-> fcall.orig, wire |-> fcall.res.v]
    /\ UNCHANGED <<ucall, docs, store, nextId, classVars, threadVars, writer>>

(* to_mongo of the logical value that to_python returned. *)
ThenToMongo ==
    /\ fcall.op = "to_python" /\ fcall.chain = 1 /\ IsOk(fcall.res)
    /\ fcall' = [op |-> "to_mongo", chain |-> 2, field |-> fcall.field, arg |-> fcall.res.v,
                 res |-> to_mongo(fcall.field, fcall.res.v, TRUE),
                 orig |-> fcall.orig, wire |-> fcall.wire]
    /\ UNCHANGED <<ucall, docs, store, nextId, classVars, threadVars, writer>>

(* The caller is done with the outcome; the next call starts afresh. *)
FieldCallDone ==
    /\ fcall.op # "none"
    /\ fcall' = NoCall
    /\ UNCHANGED <<ucall, docs, store, nextId, classVars, threadVars, writer>>

NextFields == ToMongo \/ ToPython \/ ThenToPython \/ ThenToMongo \/ FieldCallDone

Spec == Init /\ [][NextFields]_vars

----------------------------------------------------------------------------
(* Update operators (fields.py) and the update-query translator (model.py) *)

(* cls._update_operators *)
UpdateOperators(self) ==
    CASE self.cls = "IntegerField" ->
            {"$inc", "$mul", "$setOnInsert", "$set", "$unset", "$min", "$max", "$bit"}
      [] self.cls = "FloatField" ->
            {"$inc", "$mul", "$setOnInsert", "$set", "$unset", "$min", "$max"}
      [] self.cls \in {"DateTimeField", "TimestampField"} ->
            {"$setOnInsert", "$set", "$min", "$max", "$currentDate"}
      [] self.cls \in {"ListField", "SetField"} ->
            {"$setOnInsert", "$set", "$unset", "$", "$addToSet", "$pop", "$pullAll", "$pull",
             "$pushAll", "$push"}
      [] OTHER -> {"$setOnInsert", "$set", "$unset"}

(* ListField._update_modifiers *)
UpdateModifiers == {"$each", "$slice", "$sort", "$position"}

TypeDate == PyDict("$type" :> PyStr(<<"d", "a", "t", "e">>))
TypeTimestamp == PyDict("$type" :> PyStr(<<"t", "i", "m", "e", "s", "t", "a", "m", "p">>))

(* Field.validate_update_operator *)
Field_validate_update_operator(self, operator, value) ==
    IF operator \notin UpdateOperators(self)
    THEN FieldValidationError("Update operator " \o operator \o " not allowed", self)
    ELSE IF operator = "$unset" /\ self.required
         THEN FieldValidationError("$unset operator not allowed in required fields.", self)
         ELSE Ok(None)

(* The check a subclass adds after the one of Field: r is the outcome *)
(* of super().validate_update_operator, bad whether the value is one  *)
(* the subclass refuses for $currentDate.                              *)
CurrentDateCheck(self, operator, r, bad, message) ==
    IF ~IsOk(r) THEN r
    ELSE IF operator = "$currentDate" /\ bad THEN FieldValidationError(message, self)
    ELSE Ok(None)

(* DateTimeField.validate_update_operator *)
DateTimeField_validate_update_operator(self, operator, value) ==
    CurrentDateCheck(self, operator, Field_validate_update_operator(self, operator, value),
                     ~(PyEq(value, PyBool(TRUE)) \/ value = TypeDate),
                     "DateTimeField $currentDate operator requires field value as True or {\"$type\": \"date\"}")

(* TimestampField.validate_update_operator *)
TimestampField_validate_update_operator(self, operator, value) ==
    CurrentDateCheck(self, operator, Field_validate_update_operator(self, operator, value),
                     value # TypeTimestamp,
                     "TimestampField $currentDate operator requires field value as {\"$type\": \"timestamp\"}")

(* kv.items(): the entries of a mapping, each key a path of one token. *)
ItemsOf(q, m) == [i \in DOMAIN q |-> [k |-> <<q[i]>>, v |-> m[q[i]]]]
Items(d) == ItemsOf(SeqOfSet(DOMAIN d.m), d.m)

RECURSIVE validate_update_operator(_, _, _)
RECURSIVE validate_update_query(_, _)

(* self.field.document_class: only an EmbeddedDocumentField has it. *)
HasDocumentClass(f) == f.cls = "EmbeddedDocumentField"

(* The outcome of a loop of calls made for their exceptions only. *)
NoneOf(rs) == IF AllOk(rs) THEN Ok(None) ELSE FirstRaise(rs)

(* for i in value: self.field.validate_update_operator(operator, i) *)
EachElement(self, operator, q) ==
    NoneOf([i \in DOMAIN q |-> validate_update_operator(self.field, operator, q[i])])

(* for modifier, value in value.items(): the nested schema validates *)
(* {operator: value} when the elements are embedded documents.       *)
EachModifier(self, operator, m, keys) ==
    NoneOf([i \in DOMAIN keys |->
              IF IsEmbedded(self.field)
              THEN IF m[keys[i]].t # "dict"
                   THEN AttributeError("object has no attribute 'items'")
                   ELSE validate_update_query(self.field.document_class,
                                              <<[op |-> operator, kv |-> Items(m[keys[i]])]>>)
              ELSE Ok(None)])

(* ListField.validate_update_operator after the call of super(): r is *)
(* what Field.validate_update_operator made of the operator.          *)
ListField_validate_value(self, operator, value, r) ==
    IF ~IsOk(r) THEN r
    ELSE IF value.t = "dict" /\ DOMAIN value.m = {}
         THEN Raise("IndexError", "list index out of range", "")
    ELSE IF ~HasDocumentClass(self.field)
         THEN AttributeError("'" \o self.field.cls \o "' object has no attribute 'document_class'")
    ELSE IF value.t = "dict" /\ SeqOfSet(DOMAIN value.m)[1] \notin {"$"} \cup UpdateModifiers
         THEN Ok(None)
    ELSE IF value.t = "list" THEN EachElement(self, operator, value.l)
    ELSE IF value.t = "dict" THEN EachModifier(self, operator, value.m, SeqOfSet(DOMAIN value.m))
    ELSE Ok(None)

(* ListField.validate_update_operator *)
ListField_validate_update_operator(self, operator, value) ==
    ListField_validate_value(self, operator, value, Field_validate_update_operator(self, operator, value))

(* field.validate_update_operator(operator, value): the method of the class. *)
validate_update_operator(self, operator, value) ==
    CASE self.cls = "DateTimeField" -> DateTimeField_validate_update_operator(self, operator, value)
      [] self.cls = "TimestampField" -> TimestampField_validate_update_operator(self, operator, value)
      [] IsListField(self) -> ListField_validate_update_operator(self, operator, value)
      [] OTHER -> Field_validate_update_operator(self, operator, value)

(* k.split('.') over the tokens of a path: names and the separator ".". *)
RECURSIVE Concat(_)
Concat(tokens) == IF tokens = <<>> THEN "" ELSE Head(tokens) \o Concat(Tail(tokens))
FirstDot(k) == CHOOSE i \in DOMAIN k : k[i] = "." /\ \A j \in 1..(i - 1) : k[j] # "."
RECURSIVE Split(_)
Split(k) ==
    IF \A i \in DOMAIN k : k[i] # "." THEN <<Concat(k)>>
    ELSE <<Concat(SubSeq(k, 1, FirstDot(k) - 1))>> \o Split(SubSeq(k, FirstDot(k) + 1, Len(k)))

(* k_split left in the order of the split. *)
Reverse_not_done(q) == q

(* k_split.reverse() *)
Reverse(q) == [i \in DOMAIN q |-> q[Len(q) + 1 - i]]

(* for k in k_split[:-1]: v = {k: v} *)
RECURSIVE FoldPath(_, _)
FoldPath(ks, v) == IF ks = <<>> THEN v ELSE FoldPath(Tail(ks), PyDict(Head(ks) :> v))

(* field.document: EmbeddedDocumentField.__init__ sets document_class and *)
(* nothing else, so the attribute the translator reads does not exist.    *)
EmbeddedDocumentField_document(field) ==
    AttributeError("'EmbeddedDocumentField' object has no attribute 'document'")

(* mongo_kv[k].update(v) *)
DictUpdate(d, v) ==
    CASE v.t = "dict" -> Ok(PyDict(v.m @@ d.m))
      [] v.t \in {"list", "str"} /\ ~Truthy(v) -> Ok(d)
      [] OTHER -> Raise("TypeError", "cannot convert dictionary update sequence", "")

(* The key and the value to store, once r (a validation or a conversion) *)
(* has not raised.                                                       *)
Stored(r, k, v) == IF IsOk(r) THEN Ok(<<k, v>>) ELSE r
StoredValue(r, k) == IF IsOk(r) THEN Ok(<<k, r.v>>) ELSE r

(* The branch of a ListField: the operator is validated, v is kept. *)
TranslateList(field, operator, k, v) ==
    Stored(validate_update_operator(field, operator, v), k, v)

(* The branch of an EmbeddedDocumentField: the nested schema translates *)
(* {operator: v}; document is the outcome of reading field.document.    *)
EmbeddedResult(sub, operator, k) ==
    IF ~IsOk(sub) THEN sub
    ELSE IF operator \notin {"$unset", "$currentDate"} THEN Ok(<<k, sub.v.m[operator]>>)
    ELSE Ok(<<k, sub.v>>)

TranslateEmbedded(document, operator, k, v) ==
    IF ~IsOk(document) THEN document
    ELSE EmbeddedResult(IF v.t # "dict" THEN AttributeError("object has no attribute 'items'")
                        ELSE validate_update_query(document.v, <<[op |-> operator, kv |-> Items(v)]>>),
                        operator, k)

(* The branch of any other field: the operator is validated, then the *)
(* value converted with custom=False unless the operator takes none.  *)
ConvertScalar(field, operator, k, v) ==
    IF operator \notin {"$unset", "$currentDate"}
    THEN StoredValue(to_mongo(field, v, FALSE), k)
    ELSE Ok(<<k, v>>)

TranslateScalar(field, operator, k, v, checked) ==
    IF ~IsOk(checked) THEN checked ELSE ConvertScalar(field, operator, k, v)

(* The body of the loop from the field lookup on. *)
TranslateField(field, operator, k, v) ==
    IF IsListField(field) THEN TranslateList(field, operator, k, v)
    ELSE IF IsEmbedded(field)
         THEN TranslateEmbedded(EmbeddedDocumentField_document(field), operator, k, v)
    ELSE TranslateScalar(field, operator, k, v, validate_update_operator(field, operator, v))

(* try: field = cls._meta.fields[k]; except KeyError: raise ValueError *)
LookupField(schema, operator, k, v) ==
    IF k \notin FieldNames(schema) THEN Raise("ValueError", k \o " is not a field", "")
    ELSE TranslateField(FieldOf(schema, k), operator, k, v)

(* The expansion of a compacted path: k_split is the reversed split. *)
ExpandPath(schema, operator, k_split, value) ==
    LookupField(schema, operator, k_split[Len(k_split)],
                IF Len(k_split) > 1 THEN FoldPath(SubSeq(k_split, 1, Len(k_split) - 1), value)
                ELSE value)

(* The body of the loop over kv.items(): one path and its value; the *)
(* outcome is the key and the value to store under it.               *)
TranslateEntry(schema, operator, path, value) ==
    ExpandPath(schema, operator, Reverse(Split(path)), value)

(* The loop over kv.items() with the merge into mongo_kv; kv is the *)
(* sequence of the entries in the order the mapping yields them.    *)
RECURSIVE TranslateEntries(_, _, _, _)

Assign(schema, operator, rest, mongo_kv, k, r) ==
    IF IsOk(r) THEN TranslateEntries(schema, operator, rest, (k :> r.v) @@ mongo_kv) ELSE r

(* if k in mongo_kv and isinstance(mongo_kv[k], dict): update, else assign *)
Merge(schema, operator, rest, mongo_kv, e) ==
    IF ~IsOk(e) THEN e
    ELSE IF e.v[1] \in DOMAIN mongo_kv /\ mongo_kv[e.v[1]].t = "dict"
         THEN Assign(schema, operator, rest, mongo_kv, e.v[1], DictUpdate(mongo_kv[e.v[1]], e.v[2]))
         ELSE Assign(schema, operator, rest, mongo_kv, e.v[1], Ok(e.v[2]))

TranslateEntries(schema, operator, kv, mongo_kv) ==
    IF kv = <<>> THEN Ok(PyDict(mongo_kv))
    ELSE Merge(schema, operator, Tail(kv), mongo_kv,
               TranslateEntry(schema, operator, Head(kv).k, Head(kv).v))

(* Document.validate_update_query(cls, update): update is the sequence of *)
(* the operators and their entries in the order update.items() yields.    *)
RECURSIVE TranslateGroups(_, _, _)

(* data[operator] = mongo_kv *)
AssignGroup(schema, rest, data, operator, r) ==
    IF IsOk(r) THEN TranslateGroups(schema, rest, (operator :> r.v) @@ data) ELSE r

TranslateGroups(schema, update, data) ==
    IF update = <<>> THEN Ok(PyDict(data))
    ELSE AssignGroup(schema, Tail(update), data, Head(update).op,
                     TranslateEntries(schema, Head(update).op, Head(update).kv, <<>>))

validate_update_query(schema, update) == TranslateGroups(schema, update, <<>>)

----------------------------------------------------------------------------
(* The document classes the translator is called on, and the updates *)

(* The nested schema of the spec's scenario: an integer sub-field age. *)
ProfileSchema == <<Named(Field("IntegerField"), "age"), Named(Optional(Field("TextField")), "nick")>>

ItemSchema == <<Named(Field("IntegerField"), "a"), Named(Optional(Field("IntegerField")), "b")>>

(* A Model subclass with a field of every variant; _id comes from Model. *)
UserSchema ==
    <<Named([Field("ObjectIdField") EXCEPT !.auto = TRUE], "_id"),
      Named(Field("TextField"), "name"),
      Named(Optional(Field("EmailField")), "email"),
      Named([Field("IntegerField") EXCEPT !.default = PyInt(0), !.to_mongo = <<"validate_gt_zero">>], "count"),
      Named(Optional(Field("IntegerField")), "rank"),
      Named([Optional(Field("IntegerField")) EXCEPT !.to_mongo = <<"double">>], "twice"),
      Named(Optional(Field("FloatField")), "score"),
      Named(Field("BooleanField"), "flag"),
      Named(Optional(Field("DateTimeField")), "when"),
      Named(Optional(Field("DateField")), "day"),
      Named(Optional(Field("TimestampField")), "stamp"),
      Named(Optional(Field("UUIDField")), "uid"),
      Named(Optional(Field("DictField")), "meta"),
      Named(Optional(Field("JSONField")), "blob"),
      Named(ListFieldOf("ListField", Field("TextField")), "tags"),
      Named(Optional(ListFieldOf("SetField", Field("IntegerField"))), "nums"),
      Named(Optional(ListFieldOf("ListField", EmbeddedDocumentField(ItemSchema))), "items"),
      Named(EmbeddedDocumentField(ProfileSchema), "profile"),
      Named(Optional(EmbeddedDocumentField(DocSchema)), "extra")>>

AllOperators ==
    {"$setOnInsert", "$set", "$unset", "$inc", "$mul", "$min", "$max", "$bit", "$currentDate",
     "$", "$addToSet", "$pop", "$pullAll", "$pull", "$pushAll", "$push", "$rename"}

UpdatePaths ==
    {<<UserSchema[i].name>> : i \in DOMAIN UserSchema}
      \cup {<<"nope">>, <<"nope", ".", "x">>,
            <<"profile", ".", "age">>, <<"profile", ".", "nick">>, <<"profile", ".", "zzz">>,
            <<"extra", ".", "field">>, <<"meta", ".", "x">>, <<"meta", ".", "x", ".", "y">>,
            <<"name", ".", "x">>, <<"count", ".", "and">>,
            <<"tags", ".", "$">>, <<"items", ".", "$">>, <<"items", ".", "$", ".", "a">>,
            <<"items", ".", "$", ".", "zzz">>}

UpdateValues ==
    {None, PyBool(TRUE), PyInt(0 - 3), PyInt(30), PyStr(<<>>), PyStr(<<"x">>), PyStr(<<"3", "T", "4">>),
     PyDateTime(3, 0, NoTz), PyUUID(3), TypeDate, TypeTimestamp, EmptyDict,
     PyDict([age |-> PyInt(30)]), PyDict([field |-> PyInt(42)]), PyDict([a |-> PyInt(1)]),
     PyDict("$each" :> PyList(<<PyStr(<<"x">>)>>)),
     PyList(<<>>), PyList(<<PyStr(<<"x">>)>>), PyList(<<PyInt(1), PyInt(2)>>),
     PyList(<<PyDict([a |-> PyInt(1)])>>)}

(* The entries an update of more than one path is drawn from. *)
MaxEntries == 2

SharedOperators == {"$set", "$inc", "$push"}
SharedEntries ==
    {[k |-> p, v |-> v] :
        p \in {<<"count">>, <<"twice">>, <<"nope">>, <<"profile", ".", "age">>,
               <<"meta", ".", "x">>, <<"meta", ".", "y">>, <<"tags">>,
               <<"meta", ".", "x", ".", "y">>, <<"meta", ".", "x", ".", "z">>,
               <<"items", ".", "$", ".", "a">>, <<"items", ".", "$", ".", "b">>},
        v \in {PyInt(0 - 3), PyInt(30), PyStr(<<"x">>)}}

(* The sequences of 2..MaxEntries entries with pairwise different paths. *)
EntrySeqs ==
    {q \in UNION {[1..n -> SharedEntries] : n \in 2..MaxEntries} :
        \A i, j \in DOMAIN q : i # j => q[i].k # q[j].k}

----------------------------------------------------------------------------
(* The state machine of the translator calls: ucall holds the last call *)
(* of UserModel.validate_update_query, its update and its outcome.      *)

Translated(update) ==
    [op |-> "validate_update_query", chain |-> 0, update |-> update,
     res |-> validate_update_query(UserSchema, update)]

(* update = {operator: {path: value}} *)
ValidateOne ==
    /\ ucall.op = "none"
    /\ \E o \in AllOperators, p \in UpdatePaths, v \in UpdateValues :
           /\ ucall' = Translated(<<[op |-> o, kv |-> <<[k |-> p, v |-> v]>>]>>)
           /\ UNCHANGED <<fcall, docs, store, nextId, classVars, threadVars, writer>>

(* update = {operator: {path: value, path: value, ...}} *)
ValidateShared ==
    /\ ucall.op = "none"
    /\ \E o \in SharedOperators, q \in EntrySeqs :
           /\ ucall' = Translated(<<[op |-> o, kv |-> q]>>)
           /\ UNCHANGED <<fcall, docs, store, nextId, classVars, threadVars, writer>>

(* update = {operator: {path: value}, operator: {path: value}} *)
ValidateTwoOperators ==
    /\ ucall.op = "none"
    /\ \E o1, o2 \in SharedOperators, e1, e2 \in SharedEntries :
           /\ o1 # o2
           /\ ucall' = Translated(<<[op |-> o1, kv |-> <<e1>>], [op |-> o2, kv |-> <<e2>>]>>)
           /\ UNCHANGED <<fcall, docs, store, nextId, classVars, threadVars, writer>>

UpdateCallDone ==
    /\ ucall.op # "none"
    /\ ucall' = NoCall
    /\ UNCHANGED <<fcall, docs, store, nextId, classVars, threadVars, writer>>

NextUpdate == ValidateOne \/ ValidateShared \/ ValidateTwoOperators \/ UpdateCallDone

SpecUpdate == Init /\ [][NextUpdate]_vars

(***************************************************************************)
(* Model: instances, the collection and the writes                         *)
(***************************************************************************)

MaxDocs == 2
MaxId == 3
MaxBatch == 2
RecursionLimit == 3

(* class Person(Model): _id comes from Model, name is required, age is not. *)
PersonSchema ==
    <<Named([Field("ObjectIdField") EXCEPT !.auto = TRUE], "_id"),
      Named(Field("TextField"), "name"),
      Named(Optional(Field("IntegerField")), "age")>>

(* The keyword arguments the callers construct and create documents with. *)
PersonKwargs ==
    {<<>>,
     "name" :> PyStr(<<"a">>),
     ("name" :> PyStr(<<"b">>)) @@ ("age" :> PyInt(3)),
     "age" :> PyInt(3),
     ("name" :> PyStr(<<"a">>)) @@ ("age" :> PyStr(<<"x">>))}

(* The assignments the callers make to the fields of an instance. *)
PersonAssignments ==
    {<<"name", PyStr(<<"b">>)>>, <<"name", None>>, <<"age", PyInt(4)>>, <<"age", PyStr(<<"x">>)>>}

(* Field.__set__: the value goes into _data and _changed becomes True. *)
Field_set(instance, name, value) ==
    [instance EXCEPT !.data = (name :> value) @@ @, !.changed = TRUE]

(* Model.__init__ without a projection: _data holds the defaults, then    *)
(* setattr for each keyword, which goes through Field.__set__ for a field. *)
Model_init(kwargs) ==
    [data |-> Document_init(PersonSchema, kwargs),
     changed |-> (DOMAIN kwargs \cap FieldNames(PersonSchema) # {}),
     last |-> IF DOMAIN kwargs = {} THEN "init" ELSE "init_kwargs",
     projection |-> None]

(* Document._get_field_names: every field, or the names of the projection. *)
_get_field_names(instance) ==
    IF instance.projection = None THEN FieldNames(PersonSchema)
    ELSE {instance.projection.l[i] : i \in DOMAIN instance.projection.l}

(* The fields that to_mongo() and to_python() of the instance go through. *)
InstanceFields(instance) ==
    LET Named_in(f) == f.name \in _get_field_names(instance)
    IN  SelectSeq(PersonSchema, Named_in)

(* Document.drop_none(data): data or self._data, then the entries that are *)
(* not None, a nested mapping dropped in the same way.                     *)
RECURSIVE drop_none(_, _, _)
DropEach(self_data, d, depth) ==
    [k \in DOMAIN d |-> IF d[k].t = "dict" THEN drop_none(self_data, d[k].m, depth + 1) ELSE Ok(d[k])]

Dropped(rs) ==
    IF \E k \in DOMAIN rs : ~IsOk(rs[k]) THEN rs[CHOOSE k \in DOMAIN rs : ~IsOk(rs[k])]
    ELSE Ok(PyDict([k \in {j \in DOMAIN rs : rs[j].v # None} |-> rs[k].v]))

drop_none(self_data, data, depth) ==
    IF depth > RecursionLimit
    THEN Raise("RuntimeError", "maximum recursion depth exceeded", "")
    ELSE Dropped(DropEach(self_data, IF DOMAIN data = {} THEN self_data ELSE data, depth))

(* collection.insert_one(data): the driver gives the document an _id when *)
(* it has none; the outcome is the id and the collection after the call.  *)
InsertedId(data, next) == IF "_id" \in DOMAIN data THEN data["_id"] ELSE PyObjectId(next)

insert_one(collection, data, next) ==
    IF \E i \in DOMAIN collection : collection[i]["_id"] = InsertedId(data, next)
    THEN Raise("DuplicateKeyError", "duplicate key", "")
    ELSE Ok([inserted_id |-> InsertedId(data, next),
             collection |-> Append(collection, ("_id" :> InsertedId(data, next)) @@ data),
             next |-> IF "_id" \in DOMAIN data THEN next ELSE next + 1])

(* collection.insert_many(data): insert_one for each document in order. *)
RECURSIVE insert_many(_, _, _, _)
InsertNext(r, rest, ids) ==
    IF IsOk(r) THEN insert_many(r.v.collection, rest, r.v.next, Append(ids, r.v.inserted_id)) ELSE r

insert_many(collection, data, next, ids) ==
    IF data = <<>> THEN Ok([inserted_ids |-> ids, collection |-> collection, next |-> next])
    ELSE InsertNext(insert_one(collection, Head(data), next), Tail(data), ids)

(* collection.find_one_and_replace({'_id': _id}, data): the first document *)
(* with the id is replaced and keeps its id; without one nothing changes.  *)
find_one_and_replace(collection, _id, data) ==
    [i \in DOMAIN collection |->
        IF collection[i]["_id"] = _id /\ \A j \in 1..(i - 1) : collection[j]["_id"] # _id
        THEN ("_id" :> _id) @@ data ELSE collection[i]]

(* data.pop('_id') *)
Pop(data, key) == [k \in DOMAIN data \ {key} |-> data[k]]

(* as_python() at the end of a write: _data becomes to_python() when the *)
(* conversion returns; an exception leaves _data as it was.              *)
as_python(instance, r) == IF IsOk(r) THEN [instance EXCEPT !.data = r.v.m] ELSE instance

(* The end of save() and of create with keywords, from the store call on: *)
(* self._id = inserted_id, self._changed = False, self.as_python().       *)
Written(instance, _id, how) ==
    as_python([Field_set(instance, "_id", _id) EXCEPT !.changed = FALSE, !.last = how],
              Document_to_python(InstanceFields(instance), Field_set(instance, "_id", _id).data))

(* The end of save() for an instance that has an _id: no assignment. *)
Replaced(instance) ==
    as_python([instance EXCEPT !.changed = FALSE, !.last = "save"],
              Document_to_python(InstanceFields(instance), instance.data))

(* The loop after insert_many in create with documents: doc._id = _id, *)
(* the expression doc._changed (which assigns nothing), as_python().   *)
InsertedDoc(instance, _id) ==
    as_python([Field_set(instance, "_id", _id) EXCEPT !.last = "create_many"],
              Document_to_python(InstanceFields(instance), Field_set(instance, "_id", _id).data))

(* doc = cls(...) by a caller: a new instance, nothing written. *)
Construct ==
    \E kwargs \in PersonKwargs :
        /\ Len(docs) < MaxDocs
        /\ docs' = Append(docs, Model_init(kwargs))
        /\ UNCHANGED <<fcall, ucall, store, nextId, classVars, threadVars, writer>>

(* doc.name = value by a caller: Field.__set__. *)
SetAttr ==
    \E i \in DOMAIN docs, a \in PersonAssignments :
        /\ docs' = [docs EXCEPT ![i] = [Field_set(docs[i], a[1], a[2]) EXCEPT !.last = "set"]]
        /\ UNCHANGED <<fcall, ucall, store, nextId, classVars, threadVars, writer>>

(* Model.save() when as_mongo() or drop_none() raises: as_mongo() has *)
(* replaced _data when it returned, nothing else has changed.          *)
SaveRaises ==
    \E i \in DOMAIN docs :
        LET mongo == Document_to_mongo(InstanceFields(docs[i]), docs[i].data, FALSE)
        IN  /\ IF IsOk(mongo) THEN ~IsOk(drop_none(mongo.v.m, mongo.v.m, 0)) ELSE TRUE
            /\ docs' = IF IsOk(mongo) THEN [docs EXCEPT ![i].data = mongo.v.m] ELSE docs
            /\ UNCHANGED <<fcall, ucall, store, nextId, classVars, threadVars, writer>>

(* Model.save() of an instance whose _id is set: find_one_and_replace. *)
SaveUpdate ==
    \E i \in DOMAIN docs :
        LET mongo == Document_to_mongo(InstanceFields(docs[i]), docs[i].data, FALSE)
            data == drop_none(mongo.v.m, mongo.v.m, 0)
        IN  /\ IsOk(mongo) /\ IsOk(data)
            /\ Truthy(mongo.v.m["_id"])
            /\ store' = find_one_and_replace(store, mongo.v.m["_id"], Pop(data.v.m, "_id"))
            /\ docs' = [docs EXCEPT ![i] = Replaced([docs[i] EXCEPT !.data = mongo.v.m])]
            /\ UNCHANGED <<fcall, ucall, nextId, classVars, threadVars, writer>>

(* Model.save() of an instance without an _id: insert_one. *)
SaveInsert ==
    \E i \in DOMAIN docs :
        LET mongo == Document_to_mongo(InstanceFields(docs[i]), docs[i].data, FALSE)
            data == drop_none(mongo.v.m, mongo.v.m, 0)
            result == insert_one(store, data.v.m, nextId)
        IN  /\ IsOk(mongo) /\ IsOk(data)
            /\ ~Truthy(mongo.v.m["_id"])
            /\ nextId <= MaxId
            /\ IsOk(result)
            /\ store' = result.v.collection
            /\ nextId' = result.v.next
            /\ docs' = [docs EXCEPT ![i] = Written([docs[i] EXCEPT !.data = mongo.v.m],
                                                   result.v.inserted_id, "save")]
            /\ UNCHANGED <<fcall, ucall, classVars, threadVars, writer>>

(* Model.create with keywords: one document, saved as save() does; the *)
(* caller keeps the instance that is returned.                         *)
CreateKwargs ==
    \E kwargs \in PersonKwargs :
        LET doc == Model_init(kwargs)
            mongo == Document_to_mongo(PersonSchema, doc.data, FALSE)
            data == drop_none(mongo.v.m, mongo.v.m, 0)
            result == insert_one(store, data.v.m, nextId)
        IN  /\ Len(docs) < MaxDocs
            /\ nextId <= MaxId
            /\ IsOk(mongo) /\ IsOk(data) /\ IsOk(result)
            /\ store' = result.v.collection
            /\ nextId' = result.v.next
            /\ docs' = Append(docs, Written([doc EXCEPT !.data = mongo.v.m],
                                            result.v.inserted_id, "create"))
            /\ UNCHANGED <<fcall, ucall, classVars, threadVars, writer>>

(* Model.create with documents: every document is converted, insert_many *)
(* stores them, then each instance gets its _id and as_python().         *)
CreateDocs ==
    \E n \in 1..MaxBatch : \E args \in [1..n -> PersonKwargs] :
        LET doc_list == [i \in 1..n |-> Model_init(args[i])]
            data == [i \in 1..n |-> Document_to_mongo(PersonSchema, doc_list[i].data, TRUE)]
            result == insert_many(store, [i \in 1..n |-> data[i].v.m], nextId, <<>>)
        IN  /\ Len(docs) + n <= MaxDocs
            /\ nextId + n - 1 <= MaxId
            /\ AllOk(data)
            /\ IsOk(result)
            /\ store' = result.v.collection
            /\ nextId' = result.v.next
            /\ docs' = docs \o [i \in 1..n |-> InsertedDoc(doc_list[i], result.v.inserted_ids[i])]
            /\ UNCHANGED <<fcall, ucall, classVars, threadVars, writer>>

(* collection.find_one({'_id': _id}, projection): the document found, *)
(* with its _id and the fields of the projection when there is one.   *)
find_one(found, projection) ==
    IF projection = None THEN found
    ELSE [k \in DOMAIN found \cap ({"_id"} \cup {projection.l[i] : i \in DOMAIN projection.l}) |-> found[k]]

(* cls(...) in Model.get: Model.__init__ puts '_id' before the names of a *)
(* projection, _data holds the defaults of _get_field_names(), and every  *)
(* key of the document found is assigned.                                 *)
Model_init_found(doc, projection) ==
    [data |-> [n \in (IF projection = None THEN FieldNames(PersonSchema)
                      ELSE {"_id"} \cup {projection.l[i] : i \in DOMAIN projection.l})
                  |-> IF n \in DOMAIN doc THEN doc[n] ELSE FieldOf(PersonSchema, n).default],
     changed |-> TRUE,
     last |-> "get",
     projection |-> IF projection = None THEN None ELSE PyList(<<"_id">> \o projection.l)]

(* The end of Model.get: doc._changed = False, doc.as_python(). *)
Model_get(instance) ==
    as_python([instance EXCEPT !.changed = FALSE],
              Document_to_python(InstanceFields(instance), instance.data))

(* The projections the callers read with: none, or some of the fields. *)
Projections == {None, PyList(<<"name">>), PyList(<<"age">>)}

(* The caller drops its reference to the first instance it holds. *)
Release ==
    /\ docs # <<>>
    /\ docs' = Tail(docs)
    /\ UNCHANGED <<fcall, ucall, store, nextId, classVars, threadVars, writer>>

NextModel ==
    Construct \/ SetAttr \/ SaveRaises \/ SaveUpdate \/ SaveInsert \/ CreateKwargs \/ CreateDocs \/ Release

SpecModel == Init /\ [][NextModel]_vars

(***************************************************************************)
(* ModelMeta: the assembly of a class's schema                             *)
(***************************************************************************)

MaxClasses == 3
MaxBases == 2
MaxFieldObjects == 2

(* The Field objects the class bodies declare, and the attribute names *)
(* they are declared under.                                            *)
FieldObjects == 1..MaxFieldObjects
AttrNames == {"x", "y"}

(* attrs: the Field attributes of a class body. *)
ClassAttrs == UNION {[S -> FieldObjects] : S \in SUBSET AttrNames}

(* bases: the document classes a new class derives from, in order. *)
ClassBases(n) ==
    {<<>>} \cup {<<i>> : i \in 1..n}
           \cup (IF MaxBases >= 2 THEN {<<i, j>> : i, j \in 1..n} \ {<<i, i>> : i \in 1..n} ELSE {})

(* for i in super_meta_list: meta.fields.update(i.fields) *)
RECURSIVE ParentFields(_, _, _)
ParentFields(defined, bases, fields) ==
    IF bases = <<>> THEN fields
    ELSE ParentFields(defined, Tail(bases), defined[Head(bases)].fields @@ fields)

(* meta.fields after the update with the Field attributes of the class. *)
MetaFields(defined, bases, attrs) == attrs @@ ParentFields(defined, bases, <<>>)

(* for k, v in meta.fields.items(): v.name = k.  A Field object stored  *)
(* under several keys keeps the key that items() yields last, and the   *)
(* order of a dict is not specified: named is one such outcome.         *)
SetFieldNames(fields, named) ==
    /\ named \in [{fields[k] : k \in DOMAIN fields} -> DOMAIN fields]
    /\ \A o \in DOMAIN named : fields[named[o]] = o

(* Field.name: None until a class definition assigns it. *)
FieldName(o) == IF o \in DOMAIN names THEN names[o] ELSE "None"

(* class C(bases): attrs, through ModelMeta.__new__. *)
DefineClass ==
    \E bases \in ClassBases(Len(classes)), attrs \in ClassAttrs :
        \E named \in [{MetaFields(classes, bases, attrs)[k] : k \in DOMAIN MetaFields(classes, bases, attrs)}
                        -> DOMAIN MetaFields(classes, bases, attrs)] :
            /\ Len(classes) < MaxClasses
            /\ SetFieldNames(MetaFields(classes, bases, attrs), named)
            /\ classes' = Append(classes, [bases |-> bases, attrs |-> attrs,
                                           fields |-> MetaFields(classes, bases, attrs)])
            /\ names' = named @@ names
            /\ UNCHANGED <<fcall, ucall, docs, store, nextId, threadVars, writer>>

NextClasses == DefineClass

SpecClasses == Init /\ [][NextClasses]_vars

(***************************************************************************)
(* Model.get_collection and connect: the lazy handles, call by call        *)
(***************************************************************************)

MaxThreads == 3

(* Client(host): the client a call creates; it is told apart by the call. *)
Client(by) == [t |-> "Client", by |-> by]

(* client[db_name]: the database handle of a client. *)
Database(client, name) == [t |-> "Database", client |-> client, name |-> name]

(* db[cls._meta.collection]: the collection handle of a database. *)
Collection(database, name) ==
    [t |-> "Collection", database |-> database.name, client |-> database.client, name |-> name]

(* A call of cls.get_collection() starts: nothing read yet. *)
GetCollection ==
    \E cls \in ModelClasses :
        /\ Len(threads) < MaxThreads
        /\ threads' = Append(threads, [cls |-> cls, pc |-> "check", db |-> None, result |-> None])
        /\ UNCHANGED <<fcall, ucall, docs, store, nextId, classVars, collection_connection, connections, writer>>

(* if not cls._meta.collection_connection *)
CheckConnection ==
    \E i \in DOMAIN threads :
        /\ threads[i].pc = "check"
        /\ threads' = [threads EXCEPT ![i].pc =
                          IF collection_connection[threads[i].cls] = NoConnection
                          THEN "connect" ELSE "return"]
        /\ UNCHANGED <<fcall, ucall, docs, store, nextId, classVars, collection_connection, connections, writer>>

(* connect: if db_name in _connections *)
ConnectCheck ==
    \E i \in DOMAIN threads :
        /\ threads[i].pc = "connect"
        /\ threads' = [threads EXCEPT ![i].pc =
                          IF MetaDatabase(threads[i].cls) \in DOMAIN connections
                          THEN "lookup" ELSE "create"]
        /\ UNCHANGED <<fcall, ucall, docs, store, nextId, classVars, collection_connection, connections, writer>>

(* connect: _connections[db_name] = Client(host) *)
ConnectCreate ==
    \E i \in DOMAIN threads :
        /\ threads[i].pc = "create"
        /\ connections' = (MetaDatabase(threads[i].cls) :> Client(i)) @@ connections
        /\ threads' = [threads EXCEPT ![i].pc = "lookup"]
        /\ UNCHANGED <<fcall, ucall, docs, store, nextId, classVars, collection_connection, writer>>

(* connect: db = _connections[db_name][db_name]; return db *)
ConnectLookup ==
    \E i \in DOMAIN threads :
        /\ threads[i].pc = "lookup"
        /\ threads' = [threads EXCEPT
                          ![i].db = Database(connections[MetaDatabase(threads[i].cls)],
                                             MetaDatabase(threads[i].cls)),
                          ![i].pc = "assign"]
        /\ UNCHANGED <<fcall, ucall, docs, store, nextId, classVars, collection_connection, connections, writer>>

(* The assignment as it would be were _meta one object shared by the *)
(* Model classes: every class sees the handle that was stored.       *)
AssignConnection_shared_meta ==
    \E i \in DOMAIN threads :
        /\ threads[i].pc = "assign"
        /\ collection_connection' =
              [cls \in ModelClasses |-> Collection(threads[i].db, MetaCollection(threads[i].cls))]
        /\ threads' = [threads EXCEPT ![i].pc = "return"]
        /\ UNCHANGED <<fcall, ucall, docs, store, nextId, classVars, connections, writer>>

(* cls._meta.collection_connection = db[cls._meta.collection] *)
AssignConnection ==
    \E i \in DOMAIN threads :
        /\ threads[i].pc = "assign"
        /\ collection_connection' =
              [collection_connection EXCEPT ![threads[i].cls] =
                  Collection(threads[i].db, MetaCollection(threads[i].cls))]
        /\ threads' = [threads EXCEPT ![i].pc = "return"]
        /\ UNCHANGED <<fcall, ucall, docs, store, nextId, classVars, connections, writer>>

(* return cls._meta.collection_connection *)
ReturnConnection ==
    \E i \in DOMAIN threads :
        /\ threads[i].pc = "return"
        /\ threads' = [threads EXCEPT ![i].result = collection_connection[threads[i].cls],
                                      ![i].pc = "done"]
        /\ UNCHANGED <<fcall, ucall, docs, store, nextId, classVars, collection_connection, connections, writer>>

NextThreads ==
    \/ GetCollection \/ CheckConnection \/ ConnectCheck \/ ConnectCreate
    \/ ConnectLookup \/ AssignConnection \/ ReturnConnection

SpecThreads == Init /\ [][NextThreads]_vars

(***************************************************************************)
(* Document.to_mongo and Document.to_python over the data of a document    *)
(***************************************************************************)

(* A document class with a text, a list, a set, an embedded document and *)
(* a list of embedded documents; every field but the title is optional.  *)
ArticleSchema ==
    <<Named(Field("TextField"), "title"),
      Named(Optional(ListFieldOf("ListField", Field("TextField"))), "tags"),
      Named(Optional(ListFieldOf("SetField", Field("IntegerField"))), "nums"),
      Named(Optional(EmbeddedDocumentField(ProfileSchema)), "author"),
      Named(Optional(ListFieldOf("ListField", EmbeddedDocumentField(ItemSchema))), "items")>>

(* The values a caller gives each field; None stands for a keyword left out. *)
ArticleValues ==
    [title |-> {None, PyStr(<<"a">>), PyStr(<<" ">>)},
     tags |-> {None, PyList(<<PyStr(<<"a">>)>>), PyList(<<PyStr(<<"a">>), PyStr(<<>>)>>)},
     nums |-> {None, PyList(<<PyInt(1), PyInt(1)>>), PyList(<<PyStr(<<"x">>)>>)},
     author |-> {None, PyDict([age |-> PyInt(30)]), PyDict([age |-> PyStr(<<"x">>)]), EmptyDict,
                 PyDict([age |-> PyInt(30), nick |-> None])},
     items |-> {None, PyList(<<PyDict([a |-> PyInt(1)])>>), PyList(<<PyDict([b |-> PyInt(1)])>>)}]

(* The keyword arguments of Article(...): one value for each field given. *)
ArticleKwargs ==
    {[k \in {n \in DOMAIN d : d[n] # None} |-> d[k]] :
        d \in [DOMAIN ArticleValues -> UNION {ArticleValues[n] : n \in DOMAIN ArticleValues}]
              \cap [title : ArticleValues.title, tags : ArticleValues.tags, nums : ArticleValues.nums,
                    author : ArticleValues.author, items : ArticleValues.items]}

(* Article(...).to_mongo() *)
DocumentToMongo ==
    /\ fcall.op = "none"
    /\ \E kwargs \in ArticleKwargs :
           /\ fcall' = [op |-> "Document.to_mongo", chain |-> 0, field |-> NoElem, arg |-> PyDict(kwargs),
                        res |-> Document_to_mongo(ArticleSchema, Document_init(ArticleSchema, kwargs), TRUE),
                        orig |-> PyDict(kwargs), wire |-> None]
           /\ UNCHANGED <<ucall, docs, store, nextId, classVars, threadVars, writer>>

(* Article(...).to_python() *)
DocumentToPython ==
    /\ fcall.op = "none"
    /\ \E kwargs \in ArticleKwargs :
           /\ fcall' = [op |-> "Document.to_python", chain |-> 0, field |-> NoElem, arg |-> PyDict(kwargs),
                        res |-> Document_to_python(ArticleSchema, Document_init(ArticleSchema, kwargs)),
                        orig |-> PyDict(kwargs), wire |-> None]
           /\ UNCHANGED <<ucall, docs, store, nextId, classVars, threadVars, writer>>

(* Article(...).drop_none(): no data is passed, so self._data is dropped. *)
DocumentDropNone ==
    /\ fcall.op = "none"
    /\ \E kwargs \in ArticleKwargs :
           /\ fcall' = [op |-> "Document.drop_none", chain |-> 0, field |-> NoElem,
                        arg |-> PyDict(Document_init(ArticleSchema, kwargs)),
                        res |-> drop_none(Document_init(ArticleSchema, kwargs), <<>>, 0),
                        orig |-> PyDict(kwargs), wire |-> None]
           /\ UNCHANGED <<ucall, docs, store, nextId, classVars, threadVars, writer>>

(* User.validate_update_query(update), for the updates of one path and *)
(* of two paths under one operator.                                    *)
DocumentValidateUpdate ==
    /\ fcall.op = "none"
    /\ \E update \in {<<[op |-> o, kv |-> <<[k |-> p, v |-> v]>>]>> :
                          o \in AllOperators, p \in UpdatePaths, v \in UpdateValues}
                     \cup {<<[op |-> o, kv |-> kv]>> : o \in SharedOperators, kv \in EntrySeqs} :
           /\ fcall' = [op |-> "Document.validate_update_query", chain |-> 0, field |-> NoElem,
                        arg |-> update, res |-> validate_update_query(UserSchema, update),
                        orig |-> update, wire |-> None]
           /\ UNCHANGED <<ucall, docs, store, nextId, classVars, threadVars, writer>>

(* The conversions and the validations of the data of a document. *)
NextDocument ==
    DocumentToMongo \/ DocumentToPython \/ DocumentDropNone \/ DocumentValidateUpdate \/ FieldCallDone

SpecDocument == Init /\ [][NextDocument]_vars

(* utils.json_encode: json.dumps(x), the JSON text of a value. *)
RECURSIVE json_encode(_)
json_encode(x) ==
    CASE x.t = "None" -> <<"n", "u", "l", "l">>
      [] x.t = "bool" -> (IF x.b THEN <<"t", "r", "u", "e">> ELSE <<"f", "a", "l", "s", "e">>)
      [] x.t = "int" -> IntToChars(x.i)
      [] x.t = "float" -> FloatToChars(x.h)
      [] x.t = "str" -> <<"\"">> \o x.s \o <<"\"">>
      [] x.t = "list" -> <<"[">> \o JoinSeqs([i \in DOMAIN x.l |-> json_encode(x.l[i])], <<",", " ">>) \o <<"]">>
      [] x.t = "dict" -> <<"{">> \o JoinSeqs([i \in DOMAIN SeqOfSet(DOMAIN x.m) |->
                                   <<"\"", SeqOfSet(DOMAIN x.m)[i], "\"", ":", " ">>
                                      \o json_encode(x.m[SeqOfSet(DOMAIN x.m)[i]])], <<",", " ">>) \o <<"}">>
      [] OTHER -> <<"\"">> \o Repr(x) \o <<"\"">>

----------------------------------------------------------------------------
(* The methods of Model that write, statement by statement. writer holds *)
(* the call in progress: op the method, pc the statement it is at, held  *)
(* the instances of the call (and of the caller once it has returned),   *)
(* args the documents or the update given, data what has been converted, *)
(* calls the write calls issued to the collection, error the exception   *)
(* that ended the call.                                                  *)

(* The call ends with the exception r: it propagates to the caller. *)
Raised(w, r) == [w EXCEPT !.pc = "raised", !.error = r]

(* The keyword arguments of the documents the callers write. *)
WriteKwargs ==
    {"name" :> PyStr(<<"a">>),
     ("name" :> PyStr(<<"b">>)) @@ ("age" :> PyInt(3)),
     "age" :> PyInt(3),
     ("name" :> PyStr(<<"a">>)) @@ ("age" :> PyStr(<<"x">>))}

(* doc = Person(...) by a caller. *)
CallInit ==
    /\ writer.op = "none"
    /\ \E kwargs \in WriteKwargs :
           writer' = [NoWriter EXCEPT !.op = "init", !.held = <<Model_init(kwargs)>>]
    /\ UNCHANGED <<fcall, ucall, docs, store, nextId, classVars, threadVars>>

(* doc = Person.get(_id=..., _projection=...) by a caller: find_one, the *)
(* instance of the document found, _changed = False, as_python().        *)
CallGet ==
    /\ writer.op = "none"
    /\ \E j \in DOMAIN store, projection \in Projections :
           writer' = [NoWriter EXCEPT
                         !.op = "get",
                         !.held = <<Model_get(Model_init_found(find_one(store[j], projection),
                                                               projection))>>]
    /\ UNCHANGED <<fcall, ucall, docs, store, nextId, classVars, threadVars>>

(* doc.name = value by the caller of a call that has returned. *)
CallSetAttr ==
    /\ writer.op \in {"init", "get"}
    /\ writer.pc = "done"
    /\ \E a \in PersonAssignments :
           writer' = [writer EXCEPT !.held[1] = [Field_set(@, a[1], a[2]) EXCEPT !.last = "set"]]
    /\ UNCHANGED <<fcall, ucall, docs, store, nextId, classVars, threadVars>>

(* doc.save() starts on the instance the caller holds. *)
SaveBegin ==
    /\ writer.op \in {"init", "get", "create"}
    /\ writer.pc = "done"
    /\ IF Truthy(writer.held[1].data["_id"]) THEN TRUE ELSE nextId <= MaxId
    /\ writer' = [writer EXCEPT !.op = "save", !.pc = "as_mongo", !.data = <<>>, !.calls = <<>>]
    /\ UNCHANGED <<fcall, ucall, docs, store, nextId, classVars, threadVars>>

(* Person.create(name=...) starts: doc = cls(...). *)
CreateBegin ==
    /\ writer.op = "none"
    /\ nextId <= MaxId
    /\ \E kwargs \in WriteKwargs :
           writer' = [NoWriter EXCEPT !.op = "create", !.pc = "as_mongo",
                                      !.args = <<kwargs>>, !.held = <<Model_init(kwargs)>>]
    /\ UNCHANGED <<fcall, ucall, docs, store, nextId, classVars, threadVars>>

(* self.as_mongo() in save() and in create with keywords. *)
AsMongo(w, mongo) ==
    IF IsOk(mongo) THEN [w EXCEPT !.held[1].data = mongo.v.m, !.pc = "drop_none"]
    ELSE Raised(w, mongo)

SaveAsMongo ==
    /\ writer.op \in {"save", "create"}
    /\ writer.pc = "as_mongo"
    /\ writer' = AsMongo(writer, Document_to_mongo(InstanceFields(writer.held[1]),
                                                   writer.held[1].data, FALSE))
    /\ UNCHANGED <<fcall, ucall, docs, store, nextId, classVars, threadVars>>

(* data = self.drop_none() *)
DropNone(w, data) ==
    IF IsOk(data) THEN [w EXCEPT !.data = <<data.v.m>>, !.pc = "write"] ELSE Raised(w, data)

SaveDropNone ==
    /\ writer.op \in {"save", "create"}
    /\ writer.pc = "drop_none"
    /\ writer' = DropNone(writer, drop_none(writer.held[1].data, <<>>, 0))
    /\ UNCHANGED <<fcall, ucall, docs, store, nextId, classVars, threadVars>>

(* save() of an instance with an _id: data.pop('_id'), find_one_and_replace, *)
(* self._changed = False, self.as_python().                                  *)
SaveReplace ==
    /\ writer.op = "save"
    /\ writer.pc = "write"
    /\ Truthy(writer.held[1].data["_id"])
    /\ store' = find_one_and_replace(store, writer.held[1].data["_id"], Pop(writer.data[1], "_id"))
    /\ writer' = [writer EXCEPT !.held[1] = Replaced(@), !.pc = "done",
                                !.calls = Append(@, "find_one_and_replace")]
    /\ UNCHANGED <<fcall, ucall, docs, nextId, classVars, threadVars>>

(* insert_one(data) in save() of an instance without an _id and in create *)
(* with keywords, then self._id, self._changed = False, self.as_python(). *)
InsertOne(w, result) ==
    IF IsOk(result)
    THEN [w EXCEPT !.held[1] = Written(@, result.v.inserted_id, w.op), !.pc = "done",
                   !.calls = Append(@, "insert_one")]
    ELSE [Raised(w, result) EXCEPT !.calls = Append(@, "insert_one")]

SaveInsertOne ==
    /\ writer.op \in {"save", "create"}
    /\ writer.pc = "write"
    /\ writer.op = "save" => ~Truthy(writer.held[1].data["_id"])
    /\ writer' = InsertOne(writer, insert_one(store, writer.data[1], nextId))
    /\ store' = IF IsOk(insert_one(store, writer.data[1], nextId))
                THEN insert_one(store, writer.data[1], nextId).v.collection ELSE store
    /\ nextId' = IF IsOk(insert_one(store, writer.data[1], nextId))
                 THEN insert_one(store, writer.data[1], nextId).v.next ELSE nextId
    /\ UNCHANGED <<fcall, ucall, docs, classVars, threadVars>>

(* Person.create({...}, {...}) starts: doc_list = [], data = []. *)
CreateManyBegin ==
    /\ writer.op = "none"
    /\ \E n \in 1..MaxBatch : \E args \in [1..n -> WriteKwargs] :
           /\ nextId + n - 1 <= MaxId
           /\ writer' = [NoWriter EXCEPT !.op = "create_many", !.pc = "convert", !.args = args]
    /\ UNCHANGED <<fcall, ucall, docs, store, nextId, classVars, threadVars>>

(* One pass of the loop over args: doc = cls(...), data.append(doc.to_mongo()), *)
(* doc_list.append(doc); an exception of to_mongo() ends the call.             *)
Converted(w, doc, mongo) ==
    IF IsOk(mongo) THEN [w EXCEPT !.data = Append(@, mongo.v.m), !.held = Append(@, doc)]
    ELSE Raised(w, mongo)

(* The loop as it would be were each document inserted as soon as it is *)
(* converted.                                                           *)
CreateManyConvert_insert_each ==
    /\ writer.op = "create_many"
    /\ writer.pc = "convert"
    /\ Len(writer.data) < Len(writer.args)
    /\ writer' = Converted(writer, Model_init(writer.args[Len(writer.data) + 1]),
                           Document_to_mongo(PersonSchema,
                                             Model_init(writer.args[Len(writer.data) + 1]).data, TRUE))
    /\ store' = IF writer'.pc = "convert"
                THEN insert_one(store, writer'.data[Len(writer'.data)], nextId).v.collection ELSE store
    /\ nextId' = IF writer'.pc = "convert" THEN nextId + 1 ELSE nextId
    /\ UNCHANGED <<fcall, ucall, docs, classVars, threadVars>>

CreateManyConvert ==
    /\ writer.op = "create_many"
    /\ writer.pc = "convert"
    /\ Len(writer.data) < Len(writer.args)
    /\ writer' = Converted(writer, Model_init(writer.args[Len(writer.data) + 1]),
                           Document_to_mongo(PersonSchema,
                                             Model_init(writer.args[Len(writer.data) + 1]).data, TRUE))
    /\ UNCHANGED <<fcall, ucall, docs, store, nextId, classVars, threadVars>>

(* result = collection.insert_many(data) once the loop is over, then the *)
(* loop that gives each document its _id and calls as_python().          *)
InsertMany(w, result) ==
    IF IsOk(result)
    THEN [w EXCEPT !.held = [i \in DOMAIN w.held |-> InsertedDoc(w.held[i], result.v.inserted_ids[i])],
                   !.pc = "done", !.calls = Append(@, "insert_many")]
    ELSE [Raised(w, result) EXCEPT !.calls = Append(@, "insert_many")]

CreateManyInsert ==
    /\ writer.op = "create_many"
    /\ writer.pc = "convert"
    /\ Len(writer.data) = Len(writer.args)
    /\ writer' = InsertMany(writer, insert_many(store, writer.data, nextId, <<>>))
    /\ store' = IF IsOk(insert_many(store, writer.data, nextId, <<>>))
                THEN insert_many(store, writer.data, nextId, <<>>).v.collection ELSE store
    /\ nextId' = IF IsOk(insert_many(store, writer.data, nextId, <<>>))
                 THEN insert_many(store, writer.data, nextId, <<>>).v.next ELSE nextId
    /\ UNCHANGED <<fcall, ucall, docs, classVars, threadVars>>

(* The update expressions the callers give Person.update. *)
WriteUpdates ==
    {<<[op |-> "$set", kv |-> <<[k |-> <<"name">>, v |-> PyStr(<<"b">>)]>>]>>,
     <<[op |-> "$set", kv |-> <<[k |-> <<"age">>, v |-> PyStr(<<"x">>)]>>]>>,
     <<[op |-> "$set", kv |-> <<[k |-> <<"name">>, v |-> PyStr(<<"b">>)],
                                [k |-> <<"age">>, v |-> PyStr(<<"x">>)]>>]>>,
     <<[op |-> "$set", kv |-> <<[k |-> <<"age">>, v |-> PyInt(3)]>>],
       [op |-> "$unset", kv |-> <<[k |-> <<"name">>, v |-> PyStr(<<>>)]>>]>>,
     <<[op |-> "$unset", kv |-> <<[k |-> <<"age">>, v |-> PyStr(<<>>)]>>]>>,
     <<[op |-> "$set", kv |-> <<[k |-> <<"nope">>, v |-> PyInt(3)]>>]>>}

(* Person.update({'_id': ...}, update, multi=...) starts. *)
UpdateBegin ==
    /\ writer.op = "none"
    /\ \E j \in DOMAIN store, update \in WriteUpdates, multi \in BOOLEAN :
           writer' = [NoWriter EXCEPT
                         !.op = "update", !.pc = "validate",
                         !.args = <<[query |-> store[j]["_id"], update |-> update,
                                     multi |-> multi, replace |-> FALSE]>>]
    /\ UNCHANGED <<fcall, ucall, docs, store, nextId, classVars, threadVars>>

(* Person.update({'_id': ...}, update, replace=True) starts: the update is *)
(* the keywords of the new document.                                       *)
UpdateReplaceBegin ==
    /\ writer.op = "none"
    /\ \E j \in DOMAIN store, update \in WriteKwargs :
           writer' = [NoWriter EXCEPT
                         !.op = "update", !.pc = "validate",
                         !.args = <<[query |-> store[j]["_id"], update |-> update,
                                     multi |-> FALSE, replace |-> TRUE]>>]
    /\ UNCHANGED <<fcall, ucall, docs, store, nextId, classVars, threadVars>>

(* data = cls.validate_update_query(update), or for a replace *)
(* doc = cls(...); data = doc.to_mongo().                      *)
Validated(w, data) ==
    IF IsOk(data) THEN [w EXCEPT !.data = <<data.v>>, !.pc = "write"] ELSE Raised(w, data)

UpdateValidate ==
    /\ writer.op = "update"
    /\ writer.pc = "validate"
    /\ ~writer.args[1].replace
    /\ writer' = Validated(writer, validate_update_query(PersonSchema, writer.args[1].update))
    /\ UNCHANGED <<fcall, ucall, docs, store, nextId, classVars, threadVars>>

UpdateReplaceConvert ==
    /\ writer.op = "update"
    /\ writer.pc = "validate"
    /\ writer.args[1].replace
    /\ writer' = Validated(writer, Document_to_mongo(PersonSchema,
                                                     Model_init(writer.args[1].update).data, TRUE))
    /\ UNCHANGED <<fcall, ucall, docs, store, nextId, classVars, threadVars>>

(* The store's side of an update document with $set and $unset. *)
OperandsOf(data, operator) == IF operator \in DOMAIN data.m THEN data.m[operator].m ELSE <<>>

ApplyUpdate(doc, data) ==
    [f \in (DOMAIN doc \cup DOMAIN OperandsOf(data, "$set")) \ DOMAIN OperandsOf(data, "$unset") |->
        IF f \in DOMAIN OperandsOf(data, "$set") THEN OperandsOf(data, "$set")[f] ELSE doc[f]]

(* collection.update_many(query, data): every document the query matches. *)
update_many(collection, _id, data) ==
    [i \in DOMAIN collection |->
        IF collection[i]["_id"] = _id THEN ApplyUpdate(collection[i], data) ELSE collection[i]]

(* collection.find_one_and_update(query, data): the first document matched. *)
find_one_and_update(collection, _id, data) ==
    [i \in DOMAIN collection |->
        IF collection[i]["_id"] = _id /\ \A j \in 1..(i - 1) : collection[j]["_id"] # _id
        THEN ApplyUpdate(collection[i], data) ELSE collection[i]]

(* The document a find_one_and_... call returns: the one with the _id. *)
Returned(collection, _id) == collection[CHOOSE i \in DOMAIN collection : collection[i]["_id"] = _id]

(* doc = cls(...) of the document returned, doc._changed = False, as_python(). *)
Updated(w, collection, method) ==
    [w EXCEPT !.held = <<Model_get(Model_init_found(Returned(collection, w.args[1].query), None))>>,
              !.pc = "done", !.calls = Append(@, method)]

(* return collection.update_many(query, data, upsert) *)
UpdateMany ==
    /\ writer.op = "update"
    /\ writer.pc = "write"
    /\ writer.args[1].multi
    /\ store' = update_many(store, writer.args[1].query, writer.data[1])
    /\ writer' = [writer EXCEPT !.pc = "done", !.calls = Append(@, "update_many")]
    /\ UNCHANGED <<fcall, ucall, docs, nextId, classVars, threadVars>>

(* method = collection.find_one_and_update; doc = method(query, data, ...) *)
UpdateOne ==
    /\ writer.op = "update"
    /\ writer.pc = "write"
    /\ ~writer.args[1].multi /\ ~writer.args[1].replace
    /\ store' = find_one_and_update(store, writer.args[1].query, writer.data[1])
    /\ writer' = Updated(writer, find_one_and_update(store, writer.args[1].query, writer.data[1]),
                         "find_one_and_update")
    /\ UNCHANGED <<fcall, ucall, docs, nextId, classVars, threadVars>>

(* method = collection.find_one_and_replace; doc = method(query, data, ...) *)
UpdateReplace ==
    /\ writer.op = "update"
    /\ writer.pc = "write"
    /\ writer.args[1].replace
    /\ store' = find_one_and_replace(store, writer.args[1].query, writer.data[1].m)
    /\ writer' = Updated(writer, find_one_and_replace(store, writer.args[1].query, writer.data[1].m),
                         "find_one_and_replace")
    /\ UNCHANGED <<fcall, ucall, docs, nextId, classVars, threadVars>>

(* The caller lets go of what the call returned or raised. *)
CallReturn ==
    /\ writer.op # "none"
    /\ writer.pc \in {"done", "raised"}
    /\ writer' = NoWriter
    /\ UNCHANGED <<fcall, ucall, docs, store, nextId, classVars, threadVars>>

NextWrites ==
    \/ CallInit \/ CallGet \/ CallSetAttr \/ SaveBegin \/ CreateBegin
    \/ SaveAsMongo \/ SaveDropNone \/ SaveReplace \/ SaveInsertOne
    \/ CreateManyBegin \/ CreateManyConvert \/ CreateManyInsert
    \/ UpdateBegin \/ UpdateReplaceBegin \/ UpdateValidate \/ UpdateReplaceConvert
    \/ UpdateMany \/ UpdateOne \/ UpdateReplace \/ CallReturn

SpecWrites == Init /\ [][NextWrites]_vars

----------------------------------------------------------------------------
(* Claims *)

(* C1: for every field variant, to_mongo(None) raises FieldValidationError *)
(* when the field has required=True and auto=False, and returns None when  *)
(* the field has required=False.                                           *)
C1_RequiredEnforcement ==
    (fcall.op = "to_mongo" /\ fcall.chain = 0 /\ fcall.arg = None) =>
        /\ (fcall.field.required /\ ~fcall.field.auto)
              => (~IsOk(fcall.res) /\ fcall.res.exc = FVE)
        /\ ~fcall.field.required => fcall.res = Ok(None)

(* C6: every failure of to_mongo or to_python on a value other than None  *)
(* reaches the caller as a FieldValidationError, and one raised by a step *)
(* keeps its message.                                                     *)
C6_UniformErrorType ==
    (fcall.op \in {"to_mongo", "to_python"} /\ fcall.arg # None /\ ~IsOk(fcall.res)) =>
        /\ fcall.res.exc = FVE
        /\ (fcall.op = "to_mongo" /\ fcall.field.cls = "IntegerField"
              /\ fcall.field.to_mongo = <<"validate_gt_zero">> /\ fcall.arg = PyInt(0 - 3))
              => fcall.res.msg = "Value must be a natural number"

(* C7: for a field with built-in steps only and a value v that to_mongo    *)
(* accepts, to_python(to_mongo(v)) succeeds and yields the logical form of *)
(* v (the integer, the date/time, the identifier), and converting that     *)
(* again gives to_mongo(v).                                                *)
C7_RoundTrip ==
    (fcall.op # "none" /\ fcall.chain > 0
        /\ fcall.field.to_mongo = <<>> /\ fcall.field.to_python = <<>> /\ fcall.field.choices = <<>>) =>
        /\ IsOk(fcall.res)
        /\ (fcall.chain = 1 /\ fcall.field.cls = "IntegerField" /\ fcall.orig.t = "int")
              => fcall.res.v = fcall.orig
        /\ (fcall.chain = 1 /\ fcall.field.cls = "DateTimeField" /\ fcall.field.timezone = NoTz
              /\ fcall.orig.t = "datetime" /\ fcall.orig.tz = NoTz)
              => fcall.res.v = fcall.orig
        /\ (fcall.chain = 1 /\ fcall.field.cls = "UUIDField" /\ fcall.orig.t = "uuid")
              => fcall.res.v = fcall.orig
        /\ fcall.chain = 2 => fcall.res = Ok(fcall.wire)

----------------------------------------------------------------------------
(* Claims about the update-query translator *)

IsUpdateCall == ucall.op = "validate_update_query"
(* The update is {operator: {path: value}}: one operator, one path. *)
IsSingle == IsUpdateCall /\ Len(ucall.update) = 1 /\ Len(ucall.update[1].kv) = 1
TheOp == ucall.update[1].op
ThePath == ucall.update[1].kv[1].k
TheValue == ucall.update[1].kv[1].v
RaisedFVE == ~IsOk(ucall.res) /\ ucall.res.exc = FVE

IsScalar(f) == ~IsListField(f) /\ ~IsEmbedded(f)
OneEntry(o, p, v) == <<[op |-> o, kv |-> <<[k |-> p, v |-> v]>>]>>

(* The operator may be applied to field f with value v: it is on f's    *)
(* whitelist, it is no $unset of a required field, and v is a value the *)
(* field's built-in conversion accepts.                                 *)
Applicable(f, o, v) ==
    /\ o \in UpdateOperators(f)
    /\ ~(o = "$unset" /\ f.required)
    /\ o # "$currentDate"
    /\ v # None
    /\ IsOk(to_mongo(f, v, FALSE))

(* C2: for a single (operator, path, value) entry that resolves to a field *)
(* F, the translator raises FieldValidationError when the operator is not  *)
(* on F's whitelist and returns a translated update when it is and the     *)
(* value is valid for F, for every variant (lists and embedded documents   *)
(* included).                                                              *)
C2_OperatorWhitelist ==
    (IsSingle /\ Len(ThePath) = 1 /\ ThePath[1] \in FieldNames(UserSchema)) =>
        LET F == FieldOf(UserSchema, ThePath[1])
        IN  /\ TheOp \notin UpdateOperators(F) => RaisedFVE
            /\ Applicable(F, TheOp, TheValue) => IsOk(ucall.res)

(* C3: $unset on a path that resolves to a required field (a field of the *)
(* schema, or a sub-field of an embedded document reached through a       *)
(* dotted path) fails with FieldValidationError, whatever the value.      *)
C3_UnsetRequired ==
    (IsSingle /\ TheOp = "$unset" /\ Split(ThePath)[1] \in FieldNames(UserSchema)) =>
        LET segs == Split(ThePath)
            F == FieldOf(UserSchema, segs[1])
        IN  /\ (Len(segs) = 1 /\ F.required) => RaisedFVE
            /\ (Len(segs) = 2 /\ IsEmbedded(F) /\ segs[2] \in FieldNames(F.document_class)
                  /\ FieldOf(F.document_class, segs[2]).required) => RaisedFVE

(* The path is a.b with a an embedded-document field and b a sub-field of *)
(* its nested schema, and the operator and the value are allowed on b.    *)
IsSubFieldUpdate ==
    /\ IsSingle
    /\ Len(Split(ThePath)) = 2
    /\ Split(ThePath)[1] \in FieldNames(UserSchema)
    /\ IsEmbedded(FieldOf(UserSchema, Split(ThePath)[1]))
    /\ Split(ThePath)[2] \in FieldNames(FieldOf(UserSchema, Split(ThePath)[1]).document_class)
    /\ Applicable(FieldOf(FieldOf(UserSchema, Split(ThePath)[1]).document_class, Split(ThePath)[2]),
                  TheOp, TheValue)

(* C4: {op: {'a.b': v}} and {op: {'a': {'b': v}}} both succeed and return *)
(* the same translated update.                                            *)
C4_DottedPathEquivalence ==
    IsSubFieldUpdate =>
        LET segs == Split(ThePath)
            nested == validate_update_query(UserSchema,
                          OneEntry(TheOp, <<segs[1]>>, PyDict(segs[2] :> TheValue)))
        IN  IsOk(ucall.res) /\ IsOk(nested) /\ ucall.res = nested

(* C5: {'$set': {'profile.age': 30}} translates to                        *)
(* {'$set': {'profile': {'age': 30}}}: the sub-field's result is placed   *)
(* under the parent field name.                                           *)
C5_EmbeddedTranslation ==
    (IsUpdateCall /\ ucall.update = OneEntry("$set", <<"profile", ".", "age">>, PyInt(30))) =>
        ucall.res = Ok(PyDict("$set" :> PyDict("profile" :> PyDict("age" :> PyInt(30)))))

(* What the built-in steps alone make of v: the field without its *)
(* caller-supplied steps.                                          *)
BuiltInOnly(f, v) == to_mongo([f EXCEPT !.to_mongo = <<>>], v, TRUE)

(* C8: when the translator converts the value of an operator for a scalar *)
(* field, no caller-supplied to_mongo step runs: the call succeeds exactly *)
(* when the built-in steps accept the value, and the value in the output  *)
(* is the result of the built-in steps.                                   *)
C8_CustomSuppressed ==
    IsUpdateCall =>
        \A gi \in DOMAIN ucall.update : \A ei \in DOMAIN ucall.update[gi].kv :
            LET g == ucall.update[gi]
                e == g.kv[ei]
                f == FieldOf(UserSchema, e.k[1])
            IN  (/\ Len(e.k) = 1 /\ e.k[1] \in FieldNames(UserSchema) /\ IsScalar(f)
                 /\ g.op \notin {"$unset", "$currentDate"})
                => /\ IsOk(ucall.res) => ucall.res.v.m[g.op].m[e.k[1]] = BuiltInOnly(f, e.v).v
                   /\ (IsSingle /\ IsOk(validate_update_operator(f, g.op, e.v)))
                         => ucall.res = (IF IsOk(BuiltInOnly(f, e.v))
                                         THEN Ok(PyDict(g.op :> PyDict(e.k[1] :> BuiltInOnly(f, e.v).v)))
                                         ELSE BuiltInOnly(f, e.v))

(* C8's case: count has a step that rejects -3, and {'$inc': {'count': -3}} *)
(* is translated to itself.                                                *)
C8_Witness ==
    /\ IsUpdateCall
    /\ ucall.update = OneEntry("$inc", <<"count">>, PyInt(0 - 3))
    /\ ~IsOk(to_mongo(FieldOf(UserSchema, "count"), PyInt(0 - 3), TRUE))
    /\ ucall.res = Ok(PyDict("$inc" :> PyDict("count" :> PyInt(0 - 3))))

(* An entry the translator is meant to accept: a scalar field, or a *)
(* sub-field of an embedded document, with an applicable operator.  *)
WellFormed(o, e) ==
    LET segs == Split(e.k)
        F == FieldOf(UserSchema, segs[1])
    IN  /\ segs[1] \in FieldNames(UserSchema)
        /\ \/ Len(segs) = 1 /\ IsScalar(F) /\ Applicable(F, o, e.v)
           \/ /\ Len(segs) = 2 /\ IsEmbedded(F) /\ segs[2] \in FieldNames(F.document_class)
              /\ Applicable(FieldOf(F.document_class, segs[2]), o, e.v)

(* C9: when the first segment of a path of the update is no field of the *)
(* schema and the update has no other defect, the call fails with the    *)
(* unknown-field error (ValueError) and returns nothing.                 *)
C9_UnknownField ==
    (/\ IsUpdateCall
     /\ \E gi \in DOMAIN ucall.update : \E ei \in DOMAIN ucall.update[gi].kv :
            Split(ucall.update[gi].kv[ei].k)[1] \notin FieldNames(UserSchema)
     /\ \A gi \in DOMAIN ucall.update : \A ei \in DOMAIN ucall.update[gi].kv :
            \/ Split(ucall.update[gi].kv[ei].k)[1] \notin FieldNames(UserSchema)
            \/ WellFormed(ucall.update[gi].op, ucall.update[gi].kv[ei]))
    => (~IsOk(ucall.res) /\ ucall.res.exc = "ValueError")

(***************************************************************************)
(* Claims about the writes of a Model                                      *)
(***************************************************************************)

(* C10: after every successful write of an instance, through save(), create *)
(* with keywords or create with documents, the instance has _changed False; *)
(* _changed is True after construction with field keywords and after an     *)
(* assignment to a field, and stays True until a successful write.          *)
C10_ChangedFlag ==
    \A i \in DOMAIN docs :
        /\ docs[i].last \in {"save", "create", "create_many"} => ~docs[i].changed
        /\ docs[i].last \in {"init_kwargs", "set"} => docs[i].changed

(***************************************************************************)
(* Claims about the schema of a class                                      *)
(***************************************************************************)

(* The field names a class or one of its ancestors declares. *)
RECURSIVE DeclaredNames(_)
DeclaredNames(c) ==
    DOMAIN classes[c].attrs
        \cup UNION {DeclaredNames(classes[c].bases[i]) : i \in DOMAIN classes[c].bases}

(* C11: immediately after a class C is defined, its schema maps every name *)
(* declared by C or by an ancestor to one Field, holds C's own Field for a *)
(* name C declares, and every Field stored under key k has name k.         *)
C11_SchemaAssembly ==
    classes # <<>> =>
        LET C == classes[Len(classes)]
        IN  /\ DOMAIN C.fields = DeclaredNames(Len(classes))
            /\ \A k \in DOMAIN C.attrs : C.fields[k] = C.attrs[k]
            /\ \A k \in DOMAIN C.fields : FieldName(C.fields[k]) = k

(* C12: the name of a Field never changes once a class definition has *)
(* assigned it, so every schema assembled so far keeps f.name = k for *)
(* each of its entries k -> f.                                        *)
C12_NameImmutable ==
    \A c \in DOMAIN classes : \A k \in DOMAIN classes[c].fields :
        FieldName(classes[c].fields[k]) = k

(***************************************************************************)
(* Claims about the lazy collection handle                                 *)
(***************************************************************************)

(* h is a whole handle for the database and the collection of cls. *)
IsHandleOf(h, cls) ==
    /\ h # NoConnection
    /\ h.t = "Collection"
    /\ h.database = MetaDatabase(cls)
    /\ h.name = MetaCollection(cls)
    /\ h.client.t = "Client"

(* Every call that has returned holds a handle of its class, and a cache *)
(* that is set holds a handle of its class.                              *)
HandlesAreWhole ==
    /\ \A i \in DOMAIN threads :
          threads[i].pc = "done" => IsHandleOf(threads[i].result, threads[i].cls)
    /\ \A cls \in ModelClasses :
          collection_connection[cls] # NoConnection => IsHandleOf(collection_connection[cls], cls)

(* A cache that is set stays set, with the same database and collection. *)
CacheStaysSet ==
    \A cls \in ModelClasses :
        collection_connection[cls] # NoConnection =>
            /\ collection_connection'[cls] # NoConnection
            /\ collection_connection'[cls].database = collection_connection[cls].database
            /\ collection_connection'[cls].name = collection_connection[cls].name

(* C13: for any interleaving of get_collection() calls, every call returns *)
(* a handle for the database and the collection of its class, no reader    *)
(* sees a partial handle, and a cache that is set is never empty again and *)
(* keeps a handle for the same database and collection.                    *)
C13_LazyHandle == []HandlesAreWhole /\ [][CacheStaysSet]_vars

(* C13's case: two calls on one class both found the cache empty, each *)
(* created its own client, and both have returned.                     *)
C13_Witness ==
    \E i, j \in DOMAIN threads :
        /\ i # j
        /\ threads[i].cls = threads[j].cls
        /\ threads[i].pc = "done" /\ threads[j].pc = "done"
        /\ threads[i].db # None /\ threads[j].db # None
        /\ threads[i].db.client # threads[j].db.client

(***************************************************************************)
(* Claims about the errors of a document                                   *)
(***************************************************************************)

(* The names of the fields of a schema and of the schemas nested in it. *)
RECURSIVE SchemaFieldNames(_)
NestedSchema(f) ==
    IF IsEmbedded(f) THEN f.document_class
    ELSE IF IsListField(f) /\ IsEmbedded(f.field) THEN f.field.document_class
    ELSE <<>>

SchemaFieldNames(schema) ==
    FieldNames(schema) \cup UNION {SchemaFieldNames(NestedSchema(schema[i])) : i \in DOMAIN schema}

(* C14: every FieldValidationError raised while the data of a document is *)
(* converted or an update is validated carries the name of a field of the *)
(* schema or of a nested schema.                                          *)
C14_ErrorsNameTheField ==
    /\ (fcall.op \in {"Document.to_mongo", "Document.to_python"}
          /\ ~IsOk(fcall.res) /\ fcall.res.exc = FVE)
          => fcall.res.field \in SchemaFieldNames(ArticleSchema)
    /\ (fcall.op = "Document.validate_update_query" /\ ~IsOk(fcall.res) /\ fcall.res.exc = FVE)
          => fcall.res.field \in SchemaFieldNames(UserSchema)

(***************************************************************************)
(* Claims about single field variants                                      *)
(***************************************************************************)

(* The wire document of mapping m for a nested schema: a sub-field left *)
(* out takes its default, a value given is converted by its sub-field.  *)
NestedWire(schema, m) ==
    PyDict([n \in FieldNames(schema) |->
              IF n \in DOMAIN m THEN to_mongo(FieldOf(schema, n), m[n], TRUE).v
              ELSE FieldOf(schema, n).default])

(* C15: EmbeddedDocumentField.to_mongo(m) for a mapping m whose values the *)
(* sub-fields accept returns the nested document with the defaults of the  *)
(* sub-fields left out, the empty mapping included: {} gives {'field': 1}. *)
C15_EmbeddedDefaults ==
    (/\ fcall.op = "to_mongo"
     /\ fcall.field.cls = "EmbeddedDocumentField"
     /\ fcall.arg.t = "dict"
     /\ \A n \in DOMAIN fcall.arg.m \cap FieldNames(fcall.field.document_class) :
            IsOk(to_mongo(FieldOf(fcall.field.document_class, n), fcall.arg.m[n], TRUE)))
    => fcall.res = Ok(NestedWire(fcall.field.document_class, fcall.arg.m))

(* C16: JSONField.to_mongo(v) returns the JSON text of a mapping v, and *)
(* raises FieldValidationError for the empty text.                      *)
C16_JSONEncoding ==
    (fcall.op = "to_mongo" /\ fcall.field.cls = "JSONField" /\ fcall.field.to_mongo = <<>>) =>
        /\ fcall.arg.t = "dict" => fcall.res = Ok(PyStr(json_encode(fcall.arg)))
        /\ fcall.arg = PyStr(<<>>) => (~IsOk(fcall.res) /\ fcall.res.exc = FVE)

(* A call of to_mongo by an EmailField without caller-supplied steps on a *)
(* text that is not empty.                                                *)
IsEmailCall ==
    /\ fcall.op = "to_mongo"
    /\ fcall.field.cls = "EmailField"
    /\ fcall.field.to_mongo = <<>>
    /\ fcall.arg.t = "str"
    /\ fcall.arg.s # <<>>

(* The text has an @ at index first or later, its last dot is more than *)
(* two places after the @ and at least two characters follow the dot.   *)
EmailShape(s, first) ==
    /\ \E i \in DOMAIN s : s[i] = "@"
    /\ \E i \in DOMAIN s : s[i] = "."
    /\ Index(s, "@") >= first
    /\ RIndex(s, ".") > Index(s, "@") + 2
    /\ Len(s) - (RIndex(s, ".") + 1) >= 2

(* C17: EmailField.to_mongo accepts a text that is not empty, returning it *)
(* unchanged, exactly when index('@') > 1, the last dot is after           *)
(* index('@') + 2 and at least two characters follow it; every other text  *)
(* raises FieldValidationError.                                            *)
C17_EmailShape ==
    IsEmailCall =>
        IF EmailShape(fcall.arg.s, 2) THEN fcall.res = Ok(fcall.arg)
        ELSE ~IsOk(fcall.res) /\ fcall.res.exc = FVE

(* C17 as the specification words it: the @ may be at any index > 0. *)
C17_EmailShape_AsSpecified ==
    IsEmailCall =>
        IF EmailShape(fcall.arg.s, 1) THEN fcall.res = Ok(fcall.arg)
        ELSE ~IsOk(fcall.res) /\ fcall.res.exc = FVE

(* C17's case: 'f@bar.com', with the @ at index 1, is rejected. *)
C17_Witness ==
    /\ IsEmailCall
    /\ fcall.arg = PyStr(Chars("f@bar.com"))
    /\ ~IsOk(fcall.res) /\ fcall.res.exc = FVE

(* Two paths p.x and p.y: the same segments but the last, which differs. *)
Siblings(p, q) ==
    /\ Len(Split(p)) >= 2
    /\ Len(Split(p)) = Len(Split(q))
    /\ SubSeq(Split(p), 1, Len(Split(p)) - 1) = SubSeq(Split(q), 1, Len(Split(q)) - 1)
    /\ Split(p)[Len(Split(p))] # Split(q)[Len(Split(q))]

(* The mapping d holds a leaf at the end of the segments segs. *)
RECURSIVE HasLeaf(_, _)
HasLeaf(d, segs) ==
    IF segs = <<>> THEN TRUE
    ELSE IF d.t # "dict" THEN FALSE
    ELSE IF Head(segs) \notin DOMAIN d.m THEN FALSE
    ELSE HasLeaf(d.m[Head(segs)], Tail(segs))

(* C18: in the output of validate_update_query, two paths p.x and p.y given *)
(* under one operator are merged at any depth: the mapping of the operator  *)
(* holds the leaf of both, in whatever order the paths were iterated.       *)
C18_MergeKeepsBothLeaves ==
    (IsUpdateCall /\ IsOk(ucall.res)) =>
        \A g \in DOMAIN ucall.update : \A i, j \in DOMAIN ucall.update[g].kv :
            Siblings(ucall.update[g].kv[i].k, ucall.update[g].kv[j].k) =>
                /\ HasLeaf(ucall.res.v.m[ucall.update[g].op], Split(ucall.update[g].kv[i].k))
                /\ HasLeaf(ucall.res.v.m[ucall.update[g].op], Split(ucall.update[g].kv[j].k))

(* C19: for an entry whose operator is neither $unset nor $currentDate, the *)
(* value in the output of validate_update_query is the resolved field's     *)
(* to_mongo(value, custom=False), for a field of every variant, ListField   *)
(* and SetField included; for $unset and $currentDate it is the value given.*)
C19_ValueConversion ==
    (IsSingle /\ IsOk(ucall.res) /\ Len(ThePath) = 1 /\ ThePath[1] \in FieldNames(UserSchema)) =>
        IF TheOp \in {"$unset", "$currentDate"}
        THEN ucall.res.v.m[TheOp].m[ThePath[1]] = TheValue
        ELSE /\ IsOk(to_mongo(FieldOf(UserSchema, ThePath[1]), TheValue, FALSE))
             /\ ucall.res.v.m[TheOp].m[ThePath[1]]
                    = to_mongo(FieldOf(UserSchema, ThePath[1]), TheValue, FALSE).v

(* The segments s1, ..., sn of a path: its tokens between the dots. *)
Segments(p) == [i \in 1..((Len(p) + 1) \div 2) |-> p[2 * i - 1]]

(* {s2: {... {sn: v}}}: the mappings nest in the order of the segments. *)
RECURSIVE Nest(_, _)
Nest(segs, v) == IF segs = <<>> THEN v ELSE PyDict(Head(segs) :> Nest(Tail(segs), v))

(* C20: an entry with the path s1.s2...sn and the value v is translated as *)
(* the entry with the path s1 and the value {s2: {... {sn: v}}}: s1 alone  *)
(* names the field, an unknown s1 raises ValueError naming it, and the key *)
(* of the output is s1; a path without '.' is the field name, v unchanged. *)
C20_PathExpansion ==
    IsSingle =>
        /\ ucall.res = validate_update_query(UserSchema,
                           OneEntry(TheOp, <<Segments(ThePath)[1]>>, Nest(Tail(Segments(ThePath)), TheValue)))
        /\ Segments(ThePath)[1] \notin FieldNames(UserSchema)
              => ucall.res = Raise("ValueError", Segments(ThePath)[1] \o " is not a field", "")
        /\ IsOk(ucall.res) => DOMAIN ucall.res.v.m[TheOp].m = {Segments(ThePath)[1]}
        /\ (IsOk(ucall.res) /\ IsScalar(FieldOf(UserSchema, Segments(ThePath)[1])))
              => ucall.res.v.m[TheOp].m[Segments(ThePath)[1]]
                    = ConvertScalar(FieldOf(UserSchema, Segments(ThePath)[1]), TheOp, Segments(ThePath)[1],
                                    Nest(Tail(Segments(ThePath)), TheValue)).v[2]

(* C20's case: 'meta.x.y' is translated as meta with {'x': {'y': 30}}. *)
C20_Witness ==
    /\ IsUpdateCall
    /\ ucall.update = OneEntry("$set", <<"meta", ".", "x", ".", "y">>, PyInt(30))
    /\ ucall.res = Ok(PyDict("$set" :> PyDict("meta" :> PyDict("x" :> PyDict("y" :> PyInt(30))))))

(* C21: connect(db_name) creates one client per database name, also when *)
(* the first calls for the name run concurrently: every database handle  *)
(* a call has obtained for a name is a handle of the one client that the *)
(* cache holds for that name.                                            *)
C21_OneClientPerName ==
    \A i, j \in DOMAIN threads :
        (/\ threads[i].db # None
         /\ threads[j].db # None
         /\ threads[i].db.name = threads[j].db.name)
        => /\ threads[i].db.client = threads[j].db.client
           /\ threads[i].db.client = connections[threads[i].db.name]

(* The mapping d without its None-valued entries, at every nesting level. *)
RECURSIVE WithoutNone(_)
WithoutNone(d) ==
    PyDict([k \in {j \in DOMAIN d : d[j] # None} |->
               IF d[k].t = "dict" THEN WithoutNone(d[k].m) ELSE d[k]])

(* C22: drop_none terminates for every data mapping of a document, one  *)
(* holding an empty nested mapping included, and returns the mapping with *)
(* exactly its None-valued entries removed at every nesting level.       *)
C22_DropNoneTerminates ==
    fcall.op = "Document.drop_none" =>
        /\ IsOk(fcall.res)
        /\ fcall.res.v = WithoutNone(fcall.arg.m)

(* The value the stored document d has for the field f; None without one. *)
FieldAt(d, f) == IF f \in DOMAIN d THEN d[f] ELSE None

(* C23: save() of an instance that Model.get returned with a projection *)
(* leaves every field outside the projection as it is in the stored     *)
(* document; the write touches the fields of the instance only.         *)
C23_ProjectedSave ==
    [][(/\ writer.op = "save"
        /\ writer.pc = "write"
        /\ writer.held[1].projection # None)
       => \A j \in DOMAIN store \cap DOMAIN store' :
              \A f \in FieldNames(PersonSchema) \ _get_field_names(writer.held[1]) :
                  FieldAt(store'[j], f) = FieldAt(store[j], f)]_vars

(* The document d holds wire values only: each value is what the to_mongo *)
(* of its field returns for it.                                           *)
ValidDocument(d) ==
    \A f \in DOMAIN d :
        /\ f \in FieldNames(PersonSchema)
        /\ to_mongo(FieldOf(PersonSchema, f), d[f], TRUE) = Ok(d[f])

(* The update document d names fields only, with operators they allow *)
(* and values their to_mongo returns.                                 *)
ValidUpdate(d) ==
    \A o \in DOMAIN d.m : \A f \in DOMAIN d.m[o].m :
        /\ f \in FieldNames(PersonSchema)
        /\ o \in UpdateOperators(FieldOf(PersonSchema, f))
        /\ o = "$unset" => ~FieldOf(PersonSchema, f).required
        /\ o # "$unset" => to_mongo(FieldOf(PersonSchema, f), d.m[o].m[f], FALSE) = Ok(d.m[o].m[f])

(* The call in progress has converted and validated all it was given and *)
(* is at the statement that calls the collection.                        *)
AllValidated(w) ==
    CASE w.op \in {"save", "create"} ->
            w.pc = "write" /\ Len(w.data) = 1 /\ ValidDocument(w.data[1])
      [] w.op = "create_many" ->
            /\ w.pc = "convert"
            /\ Len(w.data) = Len(w.args)
            /\ \A k \in DOMAIN w.data : ValidDocument(w.data[k])
      [] w.op = "update" ->
            /\ w.pc = "write"
            /\ Len(w.data) = 1
            /\ IF w.args[1].replace THEN ValidDocument(w.data[1].m) ELSE ValidUpdate(w.data[1])
      [] OTHER -> FALSE

(* A call that raised has issued no write call, and a call has issued *)
(* one write call at most.                                            *)
NoWriteWhenRaised ==
    /\ writer.pc = "raised" => writer.calls = <<>>
    /\ Len(writer.calls) <= 1

(* The store changes only in the write call of a call that has validated *)
(* all it was given, and that call is its first.                         *)
WriteAfterValidation ==
    (store' # store \/ Len(writer'.calls) > Len(writer.calls))
        => /\ AllValidated(writer)
           /\ writer.calls = <<>>
           /\ Len(writer'.calls) = 1

(* C24: in save(), create with keywords, create with documents and       *)
(* update(), every document or update is converted and validated before  *)
(* the first write call to the store; when a document of a batch or an   *)
(* entry of an update fails validation, no write call is made at all.    *)
C24_ValidationBeforeWrite == []NoWriteWhenRaised /\ [][WriteAfterValidation]_vars

(* C24's case: create with two documents, the first converted, the second *)
(* rejected: the call raised a validation error and wrote nothing.        *)
C24_Witness ==
    /\ writer.op = "create_many"
    /\ writer.pc = "raised"
    /\ Len(writer.args) = 2
    /\ Len(writer.data) = 1
    /\ writer.error.exc = FVE
    /\ writer.calls = <<>>

====
